---- MODULE Spec2Model ----
(***************************************************************************)
(* Model of the mini-C compiler front end: MiniCCompiler (src/compiler.py) *)
(* and the stand-alone variant src/mini.py.  Source text is a sequence of  *)
(* one-character strings; tokens, AST nodes and three-address code are     *)
(* built as the Python code builds them.                                   *)
(***************************************************************************)
EXTENDS Integers, Sequences, FiniteSets, TLC

(***************************************************************************)
(* Characters                                                              *)
(***************************************************************************)
Letters ==
  {"a","b","c","d","e","f","g","h","i","j","k","l","m","n","o","p","q","r",
   "s","t","u","v","w","x","y","z","A","B","C","D","E","F","G","H","I","J",
   "K","L","M","N","O","P","Q","R","S","T","U","V","W","X","Y","Z","_"}

DigitChars == {"0","1","2","3","4","5","6","7","8","9"}

DigitVal(c) == CHOOSE k \in 0..9 : ToString(k) = c

\* int(text) for a non-empty run of decimal digits data[from..to]
RECURSIVE IntOf(_, _, _)
IntOf(data, from, to) ==
  IF to < from THEN 0
  ELSE 10 * IntOf(data, from, to - 1) + DigitVal(data[to])

\* the text data[from..to] as one string
RECURSIVE Text(_, _, _)
Text(data, from, to) ==
  IF to < from THEN "" ELSE data[from] \o Text(data, from + 1, to)

\* one past the last position of the longest run of characters of cls from pos
RECURSIVE RunEnd(_, _, _)
RunEnd(data, pos, cls) ==
  IF pos <= Len(data) /\ data[pos] \in cls THEN RunEnd(data, pos + 1, cls)
  ELSE pos

\* A formatted string (an f-string) is kept as the tuple of its literal and
\* substituted pieces; F is the string itself.
RECURSIVE F(_)
F(parts) == IF parts = <<>> THEN "" ELSE Head(parts) \o F(Tail(parts))

\* The steps of a sequential piece of code, each evaluated before the next
\* (TLC evaluates a definition where it is first used, which nests the
\* evaluation of a long sequence of steps too deeply).
InOrder(steps) == Len(steps) >= 0

\* the concatenation of the sequences seqs[lo], ..., seqs[hi]
RECURSIVE Concat(_, _, _)
Concat(seqs, lo, hi) ==
  IF lo > hi THEN <<>>
  ELSE IF lo = hi THEN seqs[lo]
  ELSE LET m == (lo + hi) \div 2 IN Concat(seqs, lo, m) \o Concat(seqs, m + 1, hi)

(***************************************************************************)
(* Lexer of MiniCCompiler (compiler.py 24-110)                             *)
(***************************************************************************)
reserved(v) ==
  CASE v = "int"    -> "INT"
    [] v = "float"  -> "FLOAT"
    [] v = "char"   -> "CHAR"
    [] v = "void"   -> "VOID"
    [] v = "if"     -> "IF"
    [] v = "else"   -> "ELSE"
    [] v = "while"  -> "WHILE"
    [] v = "for"    -> "FOR"
    [] v = "return" -> "RETURN"
    [] OTHER        -> "ID"

\* the string-defined token rules; two-character operators are tried first
\* (the master pattern orders them by decreasing pattern length)
Op2(a, b) ==
  CASE a = "|" /\ b = "|" -> "OR"
    [] a = "+" /\ b = "+" -> "PLUSPLUS"
    [] a = "=" /\ b = "=" -> "EQ"
    [] a = "!" /\ b = "=" -> "NE"
    [] a = "<" /\ b = "=" -> "LE"
    [] a = ">" /\ b = "=" -> "GE"
    [] a = "&" /\ b = "&" -> "AND"
    [] a = "-" /\ b = "-" -> "MINUSMINUS"
    [] OTHER              -> ""

Op1(a) ==
  CASE a = "+" -> "PLUS"
    [] a = "-" -> "MINUS"
    [] a = "*" -> "TIMES"
    [] a = "/" -> "DIVIDE"
    [] a = "%" -> "MODULO"
    [] a = "=" -> "ASSIGN"
    [] a = "<" -> "LT"
    [] a = ">" -> "GT"
    [] a = "!" -> "NOT"
    [] a = "(" -> "LPAREN"
    [] a = ")" -> "RPAREN"
    [] a = "{" -> "LBRACE"
    [] a = "}" -> "RBRACE"
    [] a = "[" -> "LBRACKET"
    [] a = "]" -> "RBRACKET"
    [] a = ";" -> "SEMI"
    [] a = "," -> "COMMA"
    [] OTHER   -> ""

t_ignore == {" ", "\t"}

\* Number values: <<"int", n>> or <<"float", n, frac>> with frac the decimal
\* digits after the point as Python's float repr prints them.
RECURSIVE StripZeros(_, _, _)
StripZeros(data, from, to) ==
  IF to > from /\ data[to] = "0" THEN StripZeros(data, from, to - 1)
  ELSE Text(data, from, to)

\* str(v) for a token value
Str(v) ==
  IF v[1] = "int" THEN ToString(v[2])
  ELSE IF v[1] = "float" THEN ToString(v[2]) \o "." \o v[3]
  ELSE v[2]

\* Python truthiness of a number value
Falsy(v) ==
  \/ v[1] = "int" /\ v[2] = 0
  \/ v[1] = "float" /\ v[2] = 0 /\ v[3] = "0"

Tok(type, value, lineno) ==
  [kind |-> "tok", type |-> type, value |-> value, lineno |-> lineno]

\* t_ID: the identifier at pos, reclassified through the reserved words
t_ID(data, pos, lineno) ==
  LET e == RunEnd(data, pos, Letters \cup DigitChars)
      v == Text(data, pos, e - 1)
  IN [item |-> Tok(reserved(v), <<"str", v>>, lineno), lexpos |-> e]

\* t_NUMBER: \d+(\.\d+)? ; a '.' in the text makes the value a float
t_NUMBER(data, pos, lineno) ==
  LET e == RunEnd(data, pos, DigitChars)
      frac == e + 1 <= Len(data) /\ data[e] = "." /\ data[e + 1] \in DigitChars
      e2 == IF frac THEN RunEnd(data, e + 1, DigitChars) ELSE e
      v == IF frac
           THEN <<"float", IntOf(data, pos, e - 1), StripZeros(data, e + 1, e2 - 1)>>
           ELSE <<"int", IntOf(data, pos, e - 1)>>
  IN [item |-> Tok("NUMBER", v, lineno), lexpos |-> e2]

\* end of the string literal opened at pos - 1 ("([^"\\]|\\.)*"): the position
\* of the closing quote, or 0 when the pattern does not match
RECURSIVE StringEnd(_, _)
StringEnd(data, pos) ==
  IF pos > Len(data) THEN 0
  ELSE IF data[pos] = "\"" THEN pos
  ELSE IF data[pos] = "\\"
       THEN IF pos + 1 <= Len(data) /\ data[pos + 1] # "\n"
            THEN StringEnd(data, pos + 2) ELSE 0
  ELSE StringEnd(data, pos + 1)

\* t_STRING: the value is the text without its quotes
t_STRING(data, pos, lineno) ==
  LET e == StringEnd(data, pos + 1)
  IN [item |-> Tok("STRING", <<"str", Text(data, pos + 1, e - 1)>>, lineno),
      lexpos |-> e + 1]

\* t_newline: \n+ adds the number of newlines to lexer.lineno, no token
t_newline(data, pos, lineno) ==
  LET e == RunEnd(data, pos, {"\n"})
  IN [lexpos |-> e, lineno |-> lineno + (e - pos)]

\* t_COMMENT: //.* up to (not including) the newline, no token
t_COMMENT(data, pos) ==
  RunEnd(data, pos, {data[k] : k \in pos..Len(data)} \ {"\n"})

\* t_error: one diagnostic for the offending character, which is skipped alone
t_error(data, pos, lineno) ==
  [item |-> [kind |-> "err",
             msg |-> <<"Illegal character '", data[pos], "' at line ",
                       ToString(lineno)>>],
   lexpos |-> pos + 1]

\* One call of lexer.token() past the ignored characters: the scan state
\* [lexpos, lineno, items] after the rule matching at lexpos has run.  The
\* rules are tried in the order of the master pattern: t_ID, t_NUMBER,
\* t_STRING, t_newline, t_COMMENT, then the operators; t_error when none
\* matches.  items collects the tokens and the t_error diagnostics in the
\* order the scan produces them.
Scan(lexpos, line, items) == [lexpos |-> lexpos, lineno |-> line, items |-> items]

lex_token(data, s) ==
  LET pos == s.lexpos
      c == data[pos]
      d == IF pos < Len(data) THEN data[pos + 1] ELSE ""
  IN
  IF pos > Len(data) THEN s
  ELSE IF c \in t_ignore THEN Scan(pos + 1, s.lineno, s.items)
  ELSE IF c \in Letters THEN
    LET r == t_ID(data, pos, s.lineno)
    IN Scan(r.lexpos, s.lineno, Append(s.items, r.item))
  ELSE IF c \in DigitChars THEN
    LET r == t_NUMBER(data, pos, s.lineno)
    IN Scan(r.lexpos, s.lineno, Append(s.items, r.item))
  ELSE IF c = "\"" /\ StringEnd(data, pos + 1) # 0 THEN
    LET r == t_STRING(data, pos, s.lineno)
    IN Scan(r.lexpos, s.lineno, Append(s.items, r.item))
  ELSE IF c = "\n" THEN
    LET r == t_newline(data, pos, s.lineno)
    IN Scan(r.lexpos, r.lineno, s.items)
  ELSE IF c = "/" /\ d = "/" THEN
    Scan(t_COMMENT(data, pos), s.lineno, s.items)
  ELSE IF Op2(c, d) # "" THEN
    Scan(pos + 2, s.lineno, Append(s.items, Tok(Op2(c, d), <<"str", c \o d>>, s.lineno)))
  ELSE IF Op1(c) # "" THEN
    Scan(pos + 1, s.lineno, Append(s.items, Tok(Op1(c), <<"str", c>>, s.lineno)))
  ELSE
    LET r == t_error(data, pos, s.lineno)
    IN Scan(r.lexpos, s.lineno, Append(s.items, r.item))

\* lex_token applied n times (every call consumes at least one character
\* until the input is exhausted, and changes nothing after that)
RECURSIVE lex_tokens(_, _, _)
lex_tokens(data, s, n) ==
  IF n = 0 THEN s
  ELSE IF n = 1 THEN lex_token(data, s)
  ELSE LET h == n \div 2
           m == lex_tokens(data, s, h)
       IN IF m.lexpos > Len(data) THEN m ELSE lex_tokens(data, m, n - h)

\* self.lexer.input(data) on a lexer standing at line line0, then
\* lexer.token() until it returns None
lex(data, line0) == lex_tokens(data, Scan(1, line0, <<>>), Len(data))

IsTok(it) == it.kind = "tok"
IsErr(it) == it.kind = "err"

(***************************************************************************)
(* Parser of MiniCCompiler (compiler.py 113-338).  The p_ operators are    *)
(* the reduce actions; p is the tuple of right-hand-side values p[1..n],   *)
(* so Python's len(p) is Len(p) + 1.  The operators named after the        *)
(* nonterminals drive them as the generated LALR parser does: tokens are   *)
(* consumed left to right, and a parse stops at the first token that       *)
(* cannot continue a viable prefix.                                        *)
(***************************************************************************)
PyNone == <<"None">>
PyList(s) == <<"list", s>>

TT(toks, i) == IF i <= Len(toks) THEN toks[i].type ELSE "$end"
TV(toks, i) == toks[i].value[2]

Ok(i, v, st) == [ok |-> TRUE, i |-> i, v |-> v, st |-> st]
Fail(i, st) == [ok |-> FALSE, i |-> i, v |-> <<>>, st |-> st]

\* an assignment to the dictionary that keeps the entry a name already has
Record_keeping_first(st, name, entry) ==
  [n \in DOMAIN st \cup {name} |-> IF n \in DOMAIN st THEN st[n] ELSE entry]

\* self.symbol_table[name] = entry
Record(st, name, entry) ==
  [n \in DOMAIN st \cup {name} |-> IF n = name THEN entry ELSE st[n]]

TypeSpecs == {"INT", "FLOAT", "CHAR", "VOID"}
ExprFirst == {"ID", "NUMBER", "LPAREN"}
StmtFirst == ExprFirst \cup {"SEMI", "LBRACE", "IF", "WHILE", "RETURN"}
AddOps == {"PLUS", "MINUS"}
MulOps == {"TIMES", "DIVIDE", "MODULO"}
RelOps == {"LE", "LT", "GT", "GE", "EQ", "NE"}
\* lookaheads on which a completed var_declaration is reduced: the parser
\* state after its SEMI is shared by global and local declarations
VarDeclFollow == TypeSpecs \cup StmtFirst \cup {"RBRACE", "$end"}
DeclFollow == TypeSpecs \cup {"$end"}

p_program(p) == <<"program", p[1]>>

p_declaration_list(p) ==
  IF Len(p) + 1 = 3 THEN Append(p[1], p[2]) ELSE <<p[1]>>

p_declaration(p) == p[1]

\* the node, and the symbol table after the side effect
p_var_declaration(p, st) ==
  IF Len(p) + 1 = 4
  THEN [v |-> <<"var_decl", p[1], p[2]>>,
        st |-> Record(st, p[2], [type |-> p[1], kind |-> "variable"])]
  ELSE [v |-> <<"array_decl", p[1], p[2], p[4]>>,
        st |-> Record(st, p[2], [type |-> p[1], kind |-> "array", size |-> p[4]])]

p_type_specifier(p) == p[1]

p_fun_declaration(p, st) ==
  [v |-> <<"fun_decl", p[1], p[2], p[4], p[6]>>,
   st |-> Record(st, p[2], [type |-> p[1], kind |-> "function", params |-> p[4]])]

p_params(p) ==
  IF ~(p[1][1] = "str" /\ p[1][2] = "void") THEN p[1] ELSE PyList(<<>>)

p_param_list(p) ==
  IF Len(p) + 1 = 4 THEN Append(p[1], p[3]) ELSE <<p[1]>>

p_param(p) ==
  IF Len(p) + 1 = 3 THEN <<"param", p[1], p[2]>>
  ELSE <<"array_param", p[1], p[2]>>

p_compound_stmt(p) == <<"compound", p[2], p[3]>>

p_local_declarations(p) ==
  IF Len(p) + 1 = 3 THEN Append(p[1], p[2]) ELSE <<>>

p_statement_list(p) ==
  IF Len(p) + 1 = 3 THEN Append(p[1], p[2]) ELSE <<>>

p_statement(p) == p[1]

p_expression_stmt(p) ==
  IF Len(p) + 1 = 3 THEN <<"expr_stmt", p[1]>> ELSE <<"empty_stmt">>

p_selection_stmt(p) ==
  IF Len(p) + 1 = 6 THEN <<"if", p[3], p[5]>>
  ELSE <<"if_else", p[3], p[5], p[7]>>

p_iteration_stmt(p) == <<"while", p[3], p[5]>>

p_return_stmt(p) ==
  IF Len(p) + 1 = 3 THEN <<"return">> ELSE <<"return", p[2]>>

p_expression(p) ==
  IF Len(p) + 1 = 4 THEN <<"assign", p[1], p[3]>> ELSE p[1]

p_var(p) ==
  IF Len(p) + 1 = 2 THEN <<"var", p[1]>> ELSE <<"array_ref", p[1], p[3]>>

p_simple_expression(p) ==
  IF Len(p) + 1 = 4 THEN <<"binop", p[2], p[1], p[3]>> ELSE p[1]

p_relop(p) == p[1]

p_additive_expression(p) ==
  IF Len(p) + 1 = 4 THEN <<"binop", p[2], p[1], p[3]>> ELSE p[1]

p_addop(p) == p[1]

\* a reduction of  term mulop factor  that groups to the right operand first
p_term_swapped(p) ==
  IF Len(p) + 1 = 4 THEN <<"binop", p[2], p[3], p[1]>> ELSE p[1]

p_term(p) ==
  IF Len(p) + 1 = 4 THEN <<"binop", p[2], p[1], p[3]>> ELSE p[1]

p_mulop(p) == p[1]

p_factor(p) ==
  IF Len(p) + 1 = 4 THEN p[2] ELSE p[1]

p_call(p) == <<"call", p[1], p[3]>>

p_args(p) == IF p[1] # <<>> THEN p[1] ELSE <<>>

p_arg_list(p) ==
  IF Len(p) + 1 = 4 THEN Append(p[1], p[3]) ELSE <<p[1]>>

p_error(toks, i) ==
  IF i <= Len(toks)
  THEN <<"Syntax error at token ", toks[i].type, " ('", Str(toks[i].value),
         "') at line ", ToString(toks[i].lineno)>>
  ELSE <<"Syntax error at EOF">>

\* ---- expressions: results are [ok, i, v, isvar] (isvar: v was reduced by
\* the var rule and nothing else yet, so an ASSIGN may follow) ----
EOk(i, v, isvar) == [ok |-> TRUE, i |-> i, v |-> v, isvar |-> isvar]
EFail(i) == [ok |-> FALSE, i |-> i, v |-> <<>>, isvar |-> FALSE]

\* r, then K of r (every piece of the parse is written once and named by the
\* parameter of the step that follows it)
Then(r, K(_)) == K(r)

RECURSIVE expression(_, _), factor(_, _), var_or_call(_, _), arg_list(_, _, _),
          term(_, _), additive_expression(_, _), simple_expression(_, _)

\* arg_list : arg_list COMMA expression | expression ; i is at an expression
arg_list(toks, i, acc) ==
  Then(expression(toks, i), LAMBDA e :
    IF ~e.ok THEN e
    ELSE IF TT(toks, e.i) = "COMMA"
    THEN IF TT(toks, e.i + 1) \in ExprFirst
         THEN arg_list(toks, e.i + 1,
                       IF acc = <<>> THEN p_arg_list(<<e.v>>)
                       ELSE p_arg_list(<<acc, ",", e.v>>))
         ELSE EFail(e.i + 1)
    ELSE IF TT(toks, e.i) = "RPAREN"
    THEN EOk(e.i, IF acc = <<>> THEN p_arg_list(<<e.v>>)
                  ELSE p_arg_list(<<acc, ",", e.v>>), FALSE)
    ELSE EFail(e.i))

\* var : ID | ID LBRACKET expression RBRACKET ; call : ID LPAREN args RPAREN
var_or_call(toks, i) ==
  IF TT(toks, i + 1) = "LBRACKET" THEN
    IF TT(toks, i + 2) \notin ExprFirst THEN EFail(i + 2)
    ELSE Then(expression(toks, i + 2), LAMBDA e :
           IF ~e.ok THEN e
           ELSE IF TT(toks, e.i) # "RBRACKET" THEN EFail(e.i)
           ELSE EOk(e.i + 1, p_var(<<TV(toks, i), "[", e.v, "]">>), TRUE))
  ELSE IF TT(toks, i + 1) = "LPAREN" THEN
    IF TT(toks, i + 2) = "RPAREN"
    THEN EOk(i + 3, p_call(<<TV(toks, i), "(", p_args(<<<<>>>>), ")">>), FALSE)
    ELSE IF TT(toks, i + 2) \notin ExprFirst THEN EFail(i + 2)
    ELSE Then(arg_list(toks, i + 2, <<>>), LAMBDA a :
           IF ~a.ok THEN a
           ELSE EOk(a.i + 1, p_call(<<TV(toks, i), "(", p_args(<<a.v>>), ")">>), FALSE))
  ELSE EOk(i + 1, p_var(<<TV(toks, i)>>), TRUE)

\* factor : LPAREN expression RPAREN | var | call | NUMBER
factor(toks, i) ==
  IF TT(toks, i) = "LPAREN" THEN
    IF TT(toks, i + 1) \notin ExprFirst THEN EFail(i + 1)
    ELSE Then(expression(toks, i + 1), LAMBDA e :
           IF ~e.ok THEN e
           ELSE IF TT(toks, e.i) # "RPAREN" THEN EFail(e.i)
           ELSE EOk(e.i + 1, p_factor(<<"(", e.v, ")">>), FALSE))
  ELSE IF TT(toks, i) = "NUMBER"
  THEN EOk(i + 1, p_factor(<<toks[i].value>>), FALSE)
  ELSE IF TT(toks, i) = "ID" THEN
    Then(var_or_call(toks, i), LAMBDA f :
      IF f.ok THEN EOk(f.i, p_factor(<<f.v>>), f.isvar) ELSE f)
  ELSE EFail(i)

\* term : term mulop factor | factor ; l is the term parsed so far
term(toks, l) ==
  IF ~l.ok \/ TT(toks, l.i) \notin MulOps THEN l
  ELSE Then(factor(toks, l.i + 1), LAMBDA r :
         IF ~r.ok THEN r
         ELSE term(toks, EOk(r.i, p_term(<<l.v, p_mulop(<<TV(toks, l.i)>>), r.v>>), FALSE)))

\* additive_expression : additive_expression addop term | term
additive_expression(toks, l) ==
  IF ~l.ok \/ TT(toks, l.i) \notin AddOps THEN l
  ELSE Then(term(toks, factor(toks, l.i + 1)), LAMBDA r :
         IF ~r.ok THEN r
         ELSE additive_expression(toks,
                EOk(r.i, p_additive_expression(<<l.v, p_addop(<<TV(toks, l.i)>>), r.v>>),
                    FALSE)))

\* simple_expression : additive_expression relop additive_expression
\*                   | additive_expression ; l is the first one
simple_expression(toks, l) ==
  IF ~l.ok \/ TT(toks, l.i) \notin RelOps THEN l
  ELSE Then(additive_expression(toks, term(toks, factor(toks, l.i + 1))), LAMBDA r :
         IF ~r.ok THEN r
         ELSE EOk(r.i, p_simple_expression(<<l.v, p_relop(<<TV(toks, l.i)>>), r.v>>),
                  FALSE))

\* expression : var ASSIGN expression | simple_expression
expression(toks, i) ==
  Then(factor(toks, i), LAMBDA f :
    IF ~f.ok THEN f
    ELSE IF f.isvar /\ TT(toks, f.i) = "ASSIGN" THEN
      IF TT(toks, f.i + 1) \notin ExprFirst THEN EFail(f.i + 1)
      ELSE Then(expression(toks, f.i + 1), LAMBDA r :
             IF ~r.ok THEN r
             ELSE EOk(r.i, p_expression(<<f.v, "=", r.v>>), FALSE))
    ELSE Then(simple_expression(toks, additive_expression(toks, term(toks, f))),
              LAMBDA s : IF s.ok THEN EOk(s.i, p_expression(<<s.v>>), FALSE) ELSE s))


\* ---- statements and declarations: results are [ok, i, v, st] ----
RECURSIVE statement(_, _, _), compound_stmt(_, _, _), statement_list(_, _, _, _),
          local_declarations(_, _, _, _)

\* var_declaration : type_specifier ID SEMI
\*                 | type_specifier ID LBRACKET NUMBER RBRACKET SEMI
\* i is at the type_specifier; the reduction runs once the lookahead allows it
var_declaration(toks, i, st) ==
  LET ts == p_type_specifier(<<TV(toks, i)>>) IN
  IF TT(toks, i + 1) # "ID" THEN Fail(i + 1, st)
  ELSE IF TT(toks, i + 2) = "SEMI" THEN
    IF TT(toks, i + 3) \notin VarDeclFollow THEN Fail(i + 3, st)
    ELSE LET r == p_var_declaration(<<ts, TV(toks, i + 1), ";">>, st)
         IN Ok(i + 3, r.v, r.st)
  ELSE IF TT(toks, i + 2) = "LBRACKET" THEN
    IF TT(toks, i + 3) # "NUMBER" THEN Fail(i + 3, st)
    ELSE IF TT(toks, i + 4) # "RBRACKET" THEN Fail(i + 4, st)
    ELSE IF TT(toks, i + 5) # "SEMI" THEN Fail(i + 5, st)
    ELSE IF TT(toks, i + 6) \notin VarDeclFollow THEN Fail(i + 6, st)
    ELSE LET r == p_var_declaration(
                    <<ts, TV(toks, i + 1), "[", toks[i + 3].value, "]", ";">>, st)
         IN Ok(i + 6, r.v, r.st)
  ELSE Fail(i + 2, st)

\* local_declarations : local_declarations var_declaration | empty
local_declarations(toks, i, st, acc) ==
  IF TT(toks, i) \notin TypeSpecs THEN Ok(i, acc, st)
  ELSE Then(var_declaration(toks, i, st), LAMBDA d :
         IF ~d.ok THEN d
         ELSE local_declarations(toks, d.i, d.st, p_local_declarations(<<acc, d.v>>)))

\* statement_list : statement_list statement | empty
statement_list(toks, i, st, acc) ==
  IF TT(toks, i) \notin StmtFirst THEN Ok(i, acc, st)
  ELSE Then(statement(toks, i, st), LAMBDA s :
         IF ~s.ok THEN s
         ELSE statement_list(toks, s.i, s.st, p_statement_list(<<acc, s.v>>)))

\* compound_stmt : LBRACE local_declarations statement_list RBRACE
compound_stmt(toks, i, st) ==
  Then(local_declarations(toks, i + 1, st, p_local_declarations(<<>>)), LAMBDA l :
    IF ~l.ok THEN l
    ELSE Then(statement_list(toks, l.i, l.st, p_statement_list(<<>>)), LAMBDA b :
           IF ~b.ok THEN b
           ELSE IF TT(toks, b.i) # "RBRACE" THEN Fail(b.i, b.st)
           ELSE Ok(b.i + 1, p_compound_stmt(<<"{", l.v, b.v, "}">>), b.st)))

\* expression_stmt : expression SEMI | SEMI
expression_stmt(toks, i, st) ==
  IF TT(toks, i) = "SEMI" THEN Ok(i + 1, p_expression_stmt(<<";">>), st)
  ELSE Then(expression(toks, i), LAMBDA e :
         IF ~e.ok THEN Fail(e.i, st)
         ELSE IF TT(toks, e.i) # "SEMI" THEN Fail(e.i, st)
         ELSE Ok(e.i + 1, p_expression_stmt(<<e.v, ";">>), st))

\* return_stmt : RETURN SEMI | RETURN expression SEMI
return_stmt(toks, i, st) ==
  IF TT(toks, i + 1) = "SEMI" THEN Ok(i + 2, p_return_stmt(<<"return", ";">>), st)
  ELSE Then(expression(toks, i + 1), LAMBDA e :
         IF ~e.ok THEN Fail(e.i, st)
         ELSE IF TT(toks, e.i) # "SEMI" THEN Fail(e.i, st)
         ELSE Ok(e.i + 1, p_return_stmt(<<"return", e.v, ";">>), st))

\* the common head of selection_stmt and iteration_stmt:
\* (IF | WHILE) LPAREN expression RPAREN statement
cond_body(toks, i, st) ==
  IF TT(toks, i + 1) # "LPAREN" THEN Fail(i + 1, st)
  ELSE Then(expression(toks, i + 2), LAMBDA e :
         IF ~e.ok THEN Fail(e.i, st)
         ELSE IF TT(toks, e.i) # "RPAREN" THEN Fail(e.i, st)
         ELSE IF TT(toks, e.i + 1) \notin StmtFirst THEN Fail(e.i + 1, st)
         ELSE Then(statement(toks, e.i + 1, st), LAMBDA s :
                IF ~s.ok THEN s ELSE Ok(s.i, <<e.v, s.v>>, s.st)))

\* selection_stmt : IF LPAREN expression RPAREN statement
\*                | IF LPAREN expression RPAREN statement ELSE statement
\* (an ELSE is shifted whenever it is the lookahead: it binds to the nearest if)
selection_stmt(toks, i, st) ==
  Then(cond_body(toks, i, st), LAMBDA h :
    IF ~h.ok THEN h
    ELSE IF TT(toks, h.i) # "ELSE"
    THEN Ok(h.i, p_selection_stmt(<<"if", "(", h.v[1], ")", h.v[2]>>), h.st)
    ELSE IF TT(toks, h.i + 1) \notin StmtFirst THEN Fail(h.i + 1, h.st)
    ELSE Then(statement(toks, h.i + 1, h.st), LAMBDA s :
           IF ~s.ok THEN s
           ELSE Ok(s.i, p_selection_stmt(<<"if", "(", h.v[1], ")", h.v[2], "else", s.v>>),
                   s.st)))

\* iteration_stmt : WHILE LPAREN expression RPAREN statement
iteration_stmt(toks, i, st) ==
  Then(cond_body(toks, i, st), LAMBDA h :
    IF ~h.ok THEN h
    ELSE Ok(h.i, p_iteration_stmt(<<"while", "(", h.v[1], ")", h.v[2]>>), h.st))

\* statement : expression_stmt | compound_stmt | selection_stmt
\*           | iteration_stmt | return_stmt ; i is at a token of StmtFirst
statement(toks, i, st) ==
  Then(CASE TT(toks, i) = "LBRACE" -> compound_stmt(toks, i, st)
         [] TT(toks, i) = "IF"     -> selection_stmt(toks, i, st)
         [] TT(toks, i) = "WHILE"  -> iteration_stmt(toks, i, st)
         [] TT(toks, i) = "RETURN" -> return_stmt(toks, i, st)
         [] OTHER                  -> expression_stmt(toks, i, st),
       LAMBDA r : IF r.ok THEN Ok(r.i, p_statement(<<r.v>>), r.st) ELSE r)

\* param_list : param_list COMMA param | param
\* param : type_specifier ID | type_specifier ID LBRACKET RBRACKET
RECURSIVE param_list(_, _, _, _)
param_list(toks, i, st, acc) ==
  IF TT(toks, i) \notin TypeSpecs THEN Fail(i, st)
  ELSE IF TT(toks, i + 1) # "ID" THEN Fail(i + 1, st)
  ELSE LET ts == p_type_specifier(<<TV(toks, i)>>)
           arr == TT(toks, i + 2) = "LBRACKET"
           j == IF arr THEN i + 4 ELSE i + 2
           prm == IF arr THEN p_param(<<ts, TV(toks, i + 1), "[", "]">>)
                  ELSE p_param(<<ts, TV(toks, i + 1)>>)
           l == IF acc = <<>> THEN p_param_list(<<prm>>)
                ELSE p_param_list(<<acc, ",", prm>>)
       IN IF arr /\ TT(toks, i + 3) # "RBRACKET" THEN Fail(i + 3, st)
          ELSE IF TT(toks, j) = "COMMA" THEN param_list(toks, j + 1, st, l)
          ELSE IF TT(toks, j) = "RPAREN" THEN Ok(j, l, st)
          ELSE Fail(j, st)

\* params : param_list | VOID | empty ; stops at the RPAREN
params(toks, i, st) ==
  IF TT(toks, i) = "RPAREN" THEN Ok(i, p_params(<<PyNone>>), st)
  ELSE IF TT(toks, i) = "VOID" /\ TT(toks, i + 1) = "RPAREN"
  THEN Ok(i + 1, p_params(<<<<"str", TV(toks, i)>>>>), st)
  ELSE Then(param_list(toks, i, st, <<>>), LAMBDA l :
         IF ~l.ok THEN l ELSE Ok(l.i, p_params(<<PyList(l.v)>>), st))

\* fun_declaration : type_specifier ID LPAREN params RPAREN compound_stmt
fun_declaration(toks, i, st) ==
  Then(params(toks, i + 3, st), LAMBDA ps :
    IF ~ps.ok THEN ps
    ELSE IF TT(toks, ps.i + 1) # "LBRACE" THEN Fail(ps.i + 1, st)
    ELSE Then(compound_stmt(toks, ps.i + 1, st), LAMBDA c :
           IF ~c.ok THEN c
           ELSE IF TT(toks, c.i) \notin DeclFollow THEN Fail(c.i, c.st)
           ELSE Then(p_fun_declaration(<<p_type_specifier(<<TV(toks, i)>>),
                                         TV(toks, i + 1), "(", ps.v, ")", c.v>>, c.st),
                     LAMBDA r : Ok(c.i, r.v, r.st))))

\* declaration : var_declaration | fun_declaration
declaration(toks, i, st) ==
  IF TT(toks, i) \notin TypeSpecs THEN Fail(i, st)
  ELSE IF TT(toks, i + 1) = "ID" /\ TT(toks, i + 2) = "LPAREN"
  THEN Then(fun_declaration(toks, i, st), LAMBDA f :
         IF f.ok THEN Ok(f.i, p_declaration(<<f.v>>), f.st) ELSE f)
  ELSE Then(var_declaration(toks, i, st), LAMBDA d :
         IF ~d.ok THEN d
         ELSE IF TT(toks, d.i) \notin DeclFollow THEN Fail(d.i, d.st)
         ELSE Ok(d.i, p_declaration(<<d.v>>), d.st))

\* declaration_list : declaration_list declaration | declaration
RECURSIVE declaration_list(_, _, _, _)
declaration_list(toks, i, st, acc) ==
  Then(declaration(toks, i, st), LAMBDA d :
    IF ~d.ok THEN d
    ELSE IF TT(toks, d.i) = "$end"
    THEN Ok(d.i, IF acc = <<>> THEN p_declaration_list(<<d.v>>)
                 ELSE p_declaration_list(<<acc, d.v>>), d.st)
    ELSE declaration_list(toks, d.i, d.st,
                          IF acc = <<>> THEN p_declaration_list(<<d.v>>)
                          ELSE p_declaration_list(<<acc, d.v>>)))

\* program : declaration_list ; parsed from the parser's start state at token i
program(toks, i, st) ==
  Then(declaration_list(toks, i, st, <<>>), LAMBDA l :
    IF l.ok THEN Ok(l.i, p_program(<<l.v>>), l.st) ELSE l)

\* self.parser.parse(): the generated parser with its default error recovery.
\* A token that cannot be shifted or reduced on is reported through p_error
\* unless fewer than ErrorCount tokens were shifted since the last error; the
\* parse stack is then unwound to the start state, the token is dropped and
\* parsing resumes there with the next token.  An error at the end of input
\* ends the parse with no result.  errs holds the diagnostics with the index
\* of the token at which each was raised.
ErrorCount == 3

\* the parse goes on after the error that program reported as r
Recover(toks, i, errorcount, r, errs) ==
  IF errorcount > r.i - i THEN errs
  ELSE Append(errs, [at |-> r.i, msg |-> p_error(toks, r.i)])

RECURSIVE yacc_parse(_, _, _, _, _)
yacc_parse(toks, i, errorcount, st, errs) ==
  Then(program(toks, i, st), LAMBDA r :
    IF r.ok THEN [ast |-> r.v, st |-> r.st, errs |-> errs]
    ELSE IF r.i > Len(toks)
    THEN [ast |-> PyNone, st |-> r.st, errs |-> Recover(toks, i, errorcount, r, errs)]
    ELSE yacc_parse(toks, r.i + 1, ErrorCount, r.st,
                    Recover(toks, i, errorcount, r, errs)))


(***************************************************************************)
(* Three-address code generation (compiler.py 341-446).  A generator state *)
(* g holds self.tac, self.temp_count and self.label_count; generate_tac    *)
(* returns it together with the Python return value ret: PyNone, the empty *)
(* list, or a string.  Python's node[k] is node[k + 1] here.               *)
(***************************************************************************)
PyEmptyList == <<"list", <<>>>>
PyStr(s) == <<"str", s>>

\* the text an f-string puts for a returned value
Fmt(ret) ==
  IF ret[1] = "str" THEN ret[2]
  ELSE IF ret[1] = "None" THEN "None"
  ELSE "[]"

Ret(ret, g) ==
  [ret |-> ret, tac |-> g.tac, temp_count |-> g.temp_count,
   label_count |-> g.label_count]

Emit(g, instr) ==
  [tac |-> Append(g.tac, instr), temp_count |-> g.temp_count,
   label_count |-> g.label_count]

IsNumber(node) == node[1] \in {"int", "float"}

RECURSIVE generate_tac(_, _), generate_each(_, _, _), generate_args(_, _, _, _)

\* for x in nodes: self.generate_tac(x)
generate_each(nodes, k, g) ==
  IF k > Len(nodes) THEN g
  ELSE LET r == generate_tac(nodes[k], g)
       IN IF InOrder(<<g, r>>) THEN generate_each(nodes, k + 1, r) ELSE g

\* args = [] ; for arg in node[2]: args.append(self.generate_tac(arg))
generate_args(nodes, k, g, args) ==
  IF k > Len(nodes) THEN [args |-> args, g |-> g]
  ELSE LET r == generate_tac(nodes[k], g)
       IN IF InOrder(<<g, r>>)
          THEN generate_args(nodes, k + 1, r, Append(args, Fmt(r.ret)))
          ELSE [args |-> args, g |-> g]

\* for arg in args: self.tac.append(f"param {arg}")
RECURSIVE emit_params(_, _, _)
emit_params(args, k, g) ==
  IF k > Len(args) THEN g
  ELSE emit_params(args, k + 1, Emit(g, <<"param ", args[k]>>))

\* a lowering of binop that takes the operands in the other order
gen_binop_swapped(node, g) ==
  LET right == generate_tac(node[4], g)
      left == generate_tac(node[3], right)
      temp == "t" \o ToString(left.temp_count)
      g2 == [tac |-> Append(left.tac, <<temp, " = ", Fmt(right.ret), " ", node[2],
                                        " ", Fmt(left.ret)>>),
             temp_count |-> left.temp_count + 1,
             label_count |-> left.label_count]
  IN IF InOrder(<<g, right, left>>) THEN Ret(PyStr(temp), g2) ELSE Ret(PyNone, g)

gen_binop(node, g) ==
  LET left == generate_tac(node[3], g)
      right == generate_tac(node[4], left)
      temp == "t" \o ToString(right.temp_count)
      g2 == [tac |-> Append(right.tac, <<temp, " = ", Fmt(left.ret), " ", node[2],
                                         " ", Fmt(right.ret)>>),
             temp_count |-> right.temp_count + 1,
             label_count |-> right.label_count]
  IN IF InOrder(<<g, left, right>>) THEN Ret(PyStr(temp), g2) ELSE Ret(PyNone, g)

gen_assign(node, g) ==
  LET rhs == generate_tac(node[3], g)
      lhs == generate_tac(node[2], rhs)
  IN IF InOrder(<<g, rhs, lhs>>)
     THEN Ret(PyNone, Emit(lhs, <<Fmt(lhs.ret), " = ", Fmt(rhs.ret)>>))
     ELSE Ret(PyNone, g)

gen_array_ref(node, g) ==
  LET index == generate_tac(node[3], g)
  IN Ret(PyStr(node[2] \o "[" \o Fmt(index.ret) \o "]"), index)

gen_if(node, g) ==
  LET cond == generate_tac(node[2], g)
      label_false == "L" \o ToString(cond.label_count)
      g1 == [tac |-> Append(cond.tac, <<"ifnot ", Fmt(cond.ret), " goto ", label_false>>),
             temp_count |-> cond.temp_count,
             label_count |-> cond.label_count + 1]
      body == generate_tac(node[3], g1)
  IN IF InOrder(<<g, cond, body>>)
     THEN Ret(PyNone, Emit(body, <<label_false, ":">>))
     ELSE Ret(PyNone, g)

\* a lowering of if_else that puts the jump over the else branch after Lfalse:
gen_if_else_late_goto(node, g) ==
  LET cond == generate_tac(node[2], g)
      label_false == "L" \o ToString(cond.label_count)
      label_end == "L" \o ToString(cond.label_count + 1)
      g1 == [tac |-> Append(cond.tac, <<"ifnot ", Fmt(cond.ret), " goto ", label_false>>),
             temp_count |-> cond.temp_count,
             label_count |-> cond.label_count + 2]
      then == generate_tac(node[3], g1)
      g2 == Emit(Emit(then, <<label_false, ":">>), <<"goto ", label_end>>)
      else == generate_tac(node[4], g2)
  IN IF InOrder(<<g, cond, then, else>>)
     THEN Ret(PyNone, Emit(else, <<label_end, ":">>))
     ELSE Ret(PyNone, g)

gen_if_else(node, g) ==
  LET cond == generate_tac(node[2], g)
      label_false == "L" \o ToString(cond.label_count)
      label_end == "L" \o ToString(cond.label_count + 1)
      g1 == [tac |-> Append(cond.tac, <<"ifnot ", Fmt(cond.ret), " goto ", label_false>>),
             temp_count |-> cond.temp_count,
             label_count |-> cond.label_count + 2]
      then == generate_tac(node[3], g1)
      g2 == Emit(Emit(then, <<"goto ", label_end>>), <<label_false, ":">>)
      else == generate_tac(node[4], g2)
  IN IF InOrder(<<g, cond, then, else>>)
     THEN Ret(PyNone, Emit(else, <<label_end, ":">>))
     ELSE Ret(PyNone, g)

\* a lowering of while that evaluates the condition before Lstart:
gen_while_cond_first(node, g) ==
  LET label_start == "L" \o ToString(g.label_count)
      label_end == "L" \o ToString(g.label_count + 1)
      g1 == [tac |-> g.tac, temp_count |-> g.temp_count,
             label_count |-> g.label_count + 2]
      cond == generate_tac(node[2], g1)
      g2 == Emit(Emit(cond, <<label_start, ":">>),
                 <<"ifnot ", Fmt(cond.ret), " goto ", label_end>>)
      body == generate_tac(node[3], g2)
  IN IF InOrder(<<g, cond, body>>)
     THEN Ret(PyNone, Emit(Emit(body, <<"goto ", label_start>>), <<label_end, ":">>))
     ELSE Ret(PyNone, g)

gen_while(node, g) ==
  LET label_start == "L" \o ToString(g.label_count)
      label_end == "L" \o ToString(g.label_count + 1)
      g1 == [tac |-> Append(g.tac, <<label_start, ":">>),
             temp_count |-> g.temp_count,
             label_count |-> g.label_count + 2]
      cond == generate_tac(node[2], g1)
      g2 == Emit(cond, <<"ifnot ", Fmt(cond.ret), " goto ", label_end>>)
      body == generate_tac(node[3], g2)
  IN IF InOrder(<<g, cond, body>>)
     THEN Ret(PyNone, Emit(Emit(body, <<"goto ", label_start>>), <<label_end, ":">>))
     ELSE Ret(PyNone, g)

gen_call(node, g) ==
  LET a == generate_args(node[3], 1, g, <<>>)
      g1 == emit_params(a.args, 1, a.g)
      temp == "t" \o ToString(g1.temp_count)
      g2 == [tac |-> Append(g1.tac, <<temp, " = call ", node[2], " ",
                                      ToString(Len(a.args))>>),
             temp_count |-> g1.temp_count + 1,
             label_count |-> g1.label_count]
  IN IF InOrder(<<g, a, g1>>) THEN Ret(PyStr(temp), g2) ELSE Ret(PyNone, g)

gen_return(node, g) ==
  IF Len(node) > 1
  THEN LET val == generate_tac(node[2], g)
       IN Ret(PyNone, Emit(val, <<"return ", Fmt(val.ret)>>))
  ELSE Ret(PyNone, Emit(g, <<"return">>))

generate_tac(node, g) ==
  IF ~InOrder(<<g>>) THEN Ret(PyNone, g) ELSE
  IF node = <<>> \/ node[1] = "None" \/ (IsNumber(node) /\ Falsy(node))
  THEN Ret(PyEmptyList, g)
  ELSE IF IsNumber(node) THEN Ret(PyStr(Str(node)), g)
  ELSE IF node[1] = "str" THEN Ret(node, g)
  ELSE CASE node[1] = "program" ->
              Ret(PyNone, generate_each(node[2], 1, g))
         [] node[1] = "var_decl" ->
              Ret(PyNone, Emit(g, <<"declare ", node[3], " as ", node[2]>>))
         [] node[1] = "array_decl" ->
              Ret(PyNone, Emit(g, <<"declare ", node[3], "[", Str(node[4]),
                                    "] as ", node[2]>>))
         [] node[1] = "fun_decl" ->
              Ret(PyNone, generate_tac(node[5], Emit(g, <<"function ", node[3], ":">>)))
         [] node[1] = "compound" ->
              Ret(PyNone, generate_each(node[3], 1, generate_each(node[2], 1, g)))
         [] node[1] = "assign" -> gen_assign(node, g)
         [] node[1] = "binop" -> gen_binop(node, g)
         [] node[1] = "var" -> Ret(PyStr(node[2]), g)
         [] node[1] = "array_ref" -> gen_array_ref(node, g)
         [] node[1] = "if" -> gen_if(node, g)
         [] node[1] = "if_else" -> gen_if_else(node, g)
         [] node[1] = "while" -> gen_while(node, g)
         [] node[1] = "call" -> gen_call(node, g)
         [] node[1] = "return" -> gen_return(node, g)
         [] node[1] = "expr_stmt" -> Ret(PyNone, generate_tac(node[2], g))
         [] OTHER -> Ret(PyNone, g)

(***************************************************************************)
(* MiniCCompiler.compile (compiler.py 467-525).  self is the record of the *)
(* instance's fields; lineno is self.lexer.lineno.  The formatted AST and  *)
(* the highlighted source of the returned dictionary are left out.         *)
(***************************************************************************)
EmptyDict == <<>>

\* MiniCCompiler.__init__ ; a new lexer stands at line 1
init ==
  [tokens |-> <<>>, ast |-> PyNone, tac |-> <<>>, symbol_table |-> EmptyDict,
   temp_count |-> 0, label_count |-> 0, errors |-> <<>>, lineno |-> 1]

\* a reset that leaves the two counters as the last call left them
reset_keeping_counters(self) ==
  [tokens |-> <<>>, ast |-> PyNone, tac |-> <<>>, symbol_table |-> EmptyDict,
   temp_count |-> self.temp_count, label_count |-> self.label_count,
   errors |-> <<>>, lineno |-> self.lineno]

\* "Reset state": every field but the lexer, which is only given new input
reset(self) ==
  [tokens |-> <<>>, ast |-> PyNone, tac |-> <<>>, symbol_table |-> EmptyDict,
   temp_count |-> 0, label_count |-> 0, errors |-> <<>>, lineno |-> self.lineno]

\* tokens.append({'type': tok.type, 'value': str(tok.value), 'line': tok.lineno})
token_dicts(items) ==
  LET t == SelectSeq(items, IsTok)
  IN [k \in 1..Len(t) |-> [type |-> t[k].type, value |-> Str(t[k].value),
                           line |-> t[k].lineno]]

\* the diagnostics t_error appended during a scan
lex_errors(items) ==
  LET e == SelectSeq(items, IsErr) IN [k \in 1..Len(e) |-> e[k].msg]

SyntaxErrorsAt(errs, n) ==
  LET hit == SelectSeq(errs, LAMBDA e : e.at = n)
  IN [k \in 1..Len(hit) |-> hit[k].msg]

\* self.errors while the parser pulls tokens from the lexer: a t_error
\* diagnostic is appended when the scan passes the character, a p_error
\* diagnostic when the token it names has been fetched (at the end of the
\* input for the one at EOF)
parse_errors(items, errs) ==
  LET n(k) == Len(SelectSeq(SubSeq(items, 1, k), IsTok))
      at == [k \in 1..Len(items) + 1 |->
               IF k <= Len(items) /\ IsErr(items[k]) THEN <<items[k].msg>>
               ELSE SyntaxErrorsAt(errs, IF k <= Len(items) THEN n(k) ELSE n(k - 1) + 1)]
  IN Concat(at, 1, Len(at))

\* the instance after compile(source_code), and the dictionary it returns
compile(source, self) ==
  LET s0 == reset(self)
      \* Lexical Analysis: self.lexer.input(source_code), token() to the end
      pass1 == lex(source, s0.lineno)
      tokens == token_dicts(pass1.items)
      \* Syntax Analysis: self.lexer.input(source_code) again, then parse()
      pass2 == lex(source, pass1.lineno)
      toks == SelectSeq(pass2.items, IsTok)
      parsed == yacc_parse(toks, 1, 0, s0.symbol_table, <<>>)
      errs == s0.errors \o lex_errors(pass1.items)
              \o parse_errors(pass2.items, parsed.errs)
      g0 == [tac |-> s0.tac, temp_count |-> s0.temp_count,
             label_count |-> s0.label_count]
      truthy == parsed.ast # PyNone
      \* Code Generation, if self.ast
      gen == IF truthy THEN generate_tac(parsed.ast, g0) ELSE g0
  IN IF ~InOrder(<<pass1, pass2, toks, parsed, gen>>) THEN [self |-> s0] ELSE
     [self |-> [tokens |-> s0.tokens,
                ast |-> parsed.ast,
                tac |-> gen.tac,
                symbol_table |-> parsed.st,
                temp_count |-> gen.temp_count,
                label_count |-> gen.label_count,
                errors |-> errs,
                lineno |-> pass2.lineno],
      result |-> [tokens |-> tokens,
                  tac |-> IF truthy THEN gen.tac ELSE <<>>,
                  symbol_table |-> IF truthy THEN parsed.st ELSE EmptyDict,
                  errors |-> errs]]

(***************************************************************************)
(* mini.py: the lexer (8-59).  The [LEXER] and "Illegal character" lines   *)
(* it prints are not kept.                                                 *)
(***************************************************************************)
mini_reserved(v) ==
  CASE v = "if" -> "IF" [] v = "else" -> "ELSE" [] v = "while" -> "WHILE"
    [] v = "int" -> "INT" [] OTHER -> "ID"

\* the operator and punctuation rules; == is tried before =
mini_Op2(a, b) == IF a = "=" /\ b = "=" THEN "EQ" ELSE ""
mini_Op1(a) ==
  CASE a = "+" -> "PLUS" [] a = "-" -> "MINUS" [] a = "*" -> "TIMES"
    [] a = "/" -> "DIVIDE" [] a = "=" -> "ASSIGN" [] a = "(" -> "LPAREN"
    [] a = ")" -> "RPAREN" [] a = "{" -> "LBRACE" [] a = "}" -> "RBRACE"
    [] a = ";" -> "SEMI" [] OTHER -> ""

mini_t_ID(data, pos, lineno) ==
  LET e == RunEnd(data, pos, Letters \cup DigitChars)
      v == Text(data, pos, e - 1)
  IN [item |-> Tok(mini_reserved(v), <<"str", v>>, lineno), lexpos |-> e]

\* t_NUMBER: \d+ , the value an int
mini_t_NUMBER(data, pos, lineno) ==
  LET e == RunEnd(data, pos, DigitChars)
  IN [item |-> Tok("NUMBER", <<"int", IntOf(data, pos, e - 1)>>, lineno), lexpos |-> e]

mini_lex_token(data, s) ==
  LET pos == s.lexpos
      c == data[pos]
      d == IF pos < Len(data) THEN data[pos + 1] ELSE ""
  IN
  IF pos > Len(data) THEN s
  ELSE IF c \in t_ignore THEN Scan(pos + 1, s.lineno, s.items)
  ELSE IF c \in Letters THEN
    LET r == mini_t_ID(data, pos, s.lineno)
    IN Scan(r.lexpos, s.lineno, Append(s.items, r.item))
  ELSE IF c \in DigitChars THEN
    LET r == mini_t_NUMBER(data, pos, s.lineno)
    IN Scan(r.lexpos, s.lineno, Append(s.items, r.item))
  ELSE IF c = "\n" THEN
    LET r == t_newline(data, pos, s.lineno)
    IN Scan(r.lexpos, r.lineno, s.items)
  ELSE IF mini_Op2(c, d) # "" THEN
    Scan(pos + 2, s.lineno, Append(s.items, Tok(mini_Op2(c, d), <<"str", c \o d>>, s.lineno)))
  ELSE IF mini_Op1(c) # "" THEN
    Scan(pos + 1, s.lineno, Append(s.items, Tok(mini_Op1(c), <<"str", c>>, s.lineno)))
  ELSE \* t_error: t.lexer.skip(1)
    Scan(pos + 1, s.lineno, s.items)

RECURSIVE mini_lex_tokens(_, _, _)
mini_lex_tokens(data, s, n) ==
  IF n = 0 THEN s
  ELSE IF n = 1 THEN mini_lex_token(data, s)
  ELSE LET h == n \div 2
           m == mini_lex_tokens(data, s, h)
       IN IF m.lexpos > Len(data) THEN m ELSE mini_lex_tokens(data, m, n - h)

mini_lex(data) == mini_lex_tokens(data, Scan(1, 1, <<>>), Len(data))

(***************************************************************************)
(* mini.py: the parser (64-143).  A Node is a record of its type, children *)
(* and value; the reduce actions take the tuple p of the values of the     *)
(* right-hand side, as in the compiler above.                              *)
(***************************************************************************)
Node(type, children, value) == [type |-> type, children |-> children, value |-> value]

mini_p_program(p) == Node("program", <<p[1], p[2]>>, PyNone)
mini_p_decls(p) == IF Len(p) + 1 = 3 THEN Append(p[1], p[2]) ELSE <<>>
mini_p_decl(p, st) ==
  [v |-> Node("decl", <<>>, p[2]), st |-> Record(st, p[2], 0)]
mini_p_statements(p) == IF Len(p) + 1 = 3 THEN Append(p[1], p[2]) ELSE <<>>
mini_p_statement_assign(p) == Node("assign", <<p[3]>>, p[1])
mini_p_statement_if(p) == Node("if", <<p[3], Node("block", p[6], PyNone)>>, PyNone)
mini_p_statement_if_else(p) ==
  Node("if-else", <<p[3], Node("block", p[6], PyNone), Node("block", p[10], PyNone)>>, PyNone)
mini_p_statement_while(p) == Node("while", <<p[3], Node("block", p[6], PyNone)>>, PyNone)
mini_p_expr_binop(p) == Node("binop", <<p[1], p[3]>>, p[2])
mini_p_expr_number(p) == Node("num", <<>>, p[1])
mini_p_expr_id(p) == Node("var", <<>>, p[1])

\* precedence = (('left', 'PLUS', 'MINUS'), ('left', 'TIMES', 'DIVIDE'))
precedence(type) ==
  CASE type \in {"PLUS", "MINUS"} -> 1 [] type \in {"TIMES", "DIVIDE"} -> 2 [] OTHER -> 0

RECURSIVE mini_expr(_, _, _, _), mini_expr_rest(_, _, _, _, _)

\* expr : expr PLUS expr | expr MINUS expr | expr TIMES expr | expr DIVIDE expr
\*      | NUMBER | ID ; an operator is shifted when it binds tighter than the
\* one to its left (minp is the least strength that is shifted)
mini_expr(toks, i, minp, st) ==
  IF TT(toks, i) = "NUMBER"
  THEN mini_expr_rest(toks, i + 1, mini_p_expr_number(<<toks[i].value>>), minp, st)
  ELSE IF TT(toks, i) = "ID"
  THEN mini_expr_rest(toks, i + 1, mini_p_expr_id(<<TV(toks, i)>>), minp, st)
  ELSE Fail(i, st)

mini_expr_rest(toks, i, left, minp, st) ==
  IF precedence(TT(toks, i)) > 0 /\ precedence(TT(toks, i)) >= minp
  THEN Then(mini_expr(toks, i + 1, precedence(TT(toks, i)) + 1, st), LAMBDA r :
         IF ~r.ok THEN r
         ELSE mini_expr_rest(toks, r.i, mini_p_expr_binop(<<left, TV(toks, i), r.v>>),
                             minp, st))
  ELSE Ok(i, left, st)

RECURSIVE mini_statement(_, _, _), mini_statements(_, _, _, _)

\* LBRACE statements RBRACE from toks[i]
mini_block(toks, i, st) ==
  IF TT(toks, i) # "LBRACE" THEN Fail(i, st)
  ELSE Then(mini_statements(toks, i + 1, mini_p_statements(<<<<>>>>), st), LAMBDA b :
         IF ~b.ok THEN b
         ELSE IF TT(toks, b.i) # "RBRACE" THEN Fail(b.i, st)
         ELSE Ok(b.i + 1, b.v, st))

\* LPAREN expr RPAREN LBRACE statements RBRACE from toks[i]; v is <<expr, statements>>
mini_cond_block(toks, i, st) ==
  IF TT(toks, i) # "LPAREN" THEN Fail(i, st)
  ELSE Then(mini_expr(toks, i + 1, 1, st), LAMBDA e :
         IF ~e.ok THEN e
         ELSE IF TT(toks, e.i) # "RPAREN" THEN Fail(e.i, st)
         ELSE Then(mini_block(toks, e.i + 1, st), LAMBDA b :
                IF ~b.ok THEN b ELSE Ok(b.i, <<e.v, b.v>>, st)))

mini_statement(toks, i, st) ==
  CASE TT(toks, i) = "ID" ->
         IF TT(toks, i + 1) # "ASSIGN" THEN Fail(i + 1, st)
         ELSE Then(mini_expr(toks, i + 2, 1, st), LAMBDA e :
                IF ~e.ok THEN e
                ELSE IF TT(toks, e.i) # "SEMI" THEN Fail(e.i, st)
                ELSE Ok(e.i + 1,
                        mini_p_statement_assign(<<TV(toks, i), "=", e.v, ";">>), st))
    [] TT(toks, i) = "WHILE" ->
         Then(mini_cond_block(toks, i + 1, st), LAMBDA c :
           IF ~c.ok THEN c
           ELSE Ok(c.i, mini_p_statement_while(
                          <<"while", "(", c.v[1], ")", "{", c.v[2], "}">>), st))
    [] TT(toks, i) = "IF" ->
         Then(mini_cond_block(toks, i + 1, st), LAMBDA c :
           IF ~c.ok THEN c
           ELSE IF TT(toks, c.i) = "ELSE" THEN
             Then(mini_block(toks, c.i + 1, st), LAMBDA b :
               IF ~b.ok THEN b
               ELSE Ok(b.i, mini_p_statement_if_else(
                      <<"if", "(", c.v[1], ")", "{", c.v[2], "}", "else", "{", b.v, "}">>),
                       st))
           ELSE IF TT(toks, c.i) \in {"ID", "IF", "WHILE", "RBRACE", "$end"}
           THEN Ok(c.i, mini_p_statement_if(<<"if", "(", c.v[1], ")", "{", c.v[2], "}">>),
                   st)
           ELSE Fail(c.i, st))

\* statements : statements statement | empty
mini_statements(toks, i, acc, st) ==
  IF TT(toks, i) \in {"ID", "IF", "WHILE"}
  THEN Then(mini_statement(toks, i, st), LAMBDA r :
         IF ~r.ok THEN r
         ELSE mini_statements(toks, r.i, mini_p_statements(<<acc, r.v>>), st))
  ELSE Ok(i, acc, st)

\* the tokens on which INT ID SEMI is reduced to a decl
mini_DeclFollow == {"INT", "ID", "IF", "WHILE", "$end"}

\* decls : decls decl | empty ;  decl : INT ID SEMI
RECURSIVE mini_decls(_, _, _, _)
mini_decls(toks, i, acc, st) ==
  IF TT(toks, i) = "INT"
  THEN IF TT(toks, i + 1) # "ID" THEN Fail(i + 1, st)
       ELSE IF TT(toks, i + 2) # "SEMI" THEN Fail(i + 2, st)
       ELSE IF TT(toks, i + 3) \notin mini_DeclFollow THEN Fail(i + 3, st)
       ELSE LET d == mini_p_decl(<<"int", TV(toks, i + 1), ";">>, st)
            IN mini_decls(toks, i + 3, mini_p_decls(<<acc, d.v>>), d.st)
  ELSE Ok(i, acc, st)

\* program : decls statements
mini_program(toks, i, st) ==
  Then(mini_decls(toks, i, mini_p_decls(<<<<>>>>), st), LAMBDA d :
    IF ~d.ok THEN d
    ELSE Then(mini_statements(toks, d.i, mini_p_statements(<<<<>>>>), d.st), LAMBDA b :
           IF ~b.ok THEN Fail(b.i, d.st)
           ELSE IF TT(toks, b.i) # "$end" THEN Fail(b.i, d.st)
           ELSE Ok(b.i, mini_p_program(<<d.v, b.v>>), d.st)))

\* parser.parse(code): p_error only prints; the recovery is yacc's, as in
\* yacc_parse.  errs counts the "Syntax error!" lines
RECURSIVE mini_yacc_parse(_, _, _, _, _)
mini_yacc_parse(toks, i, errorcount, st, errs) ==
  Then(mini_program(toks, i, st), LAMBDA r :
    IF r.ok THEN [ok |-> TRUE, ast |-> r.v, st |-> r.st, errs |-> errs]
    ELSE IF r.i > Len(toks)
    THEN [ok |-> FALSE, ast |-> PyNone, st |-> r.st,
          errs |-> IF errorcount > r.i - i THEN errs ELSE errs + 1]
    ELSE mini_yacc_parse(toks, r.i + 1, ErrorCount, r.st,
                         IF errorcount > r.i - i THEN errs ELSE errs + 1))

(***************************************************************************)
(* mini.py: the generator (148-202) and the script (207-234).  temp_count  *)
(* is the global counter; generate_code returns the code of a statement,   *)
(* and the pair of the code and the result of an expression.               *)
(***************************************************************************)
new_temp(tc) == [temp |-> "t" \o ToString(tc), temp_count |-> tc + 1]

Code(code, res, tc) == [code |-> code, result |-> res, temp_count |-> tc]

RECURSIVE generate_code(_, _), generate_stmts(_, _, _)

\* for stmt in stmts: code += generate_code(stmt) , from stmts[k] on
generate_stmts(stmts, k, c) ==
  IF k > Len(stmts) THEN c
  ELSE LET r == generate_code(stmts[k], c.temp_count)
       IN IF InOrder(<<c, r>>)
          THEN generate_stmts(stmts, k + 1, Code(c.code \o r.code, PyNone, r.temp_count))
          ELSE c

generate_code(node, tc) ==
  CASE node.type = "program" ->
         LET decls == generate_stmts(node.children[1], 1, Code(<<>>, PyNone, tc))
         IN IF InOrder(<<decls>>) THEN generate_stmts(node.children[2], 1, decls)
            ELSE decls
    [] node.type = "assign" ->
         LET rhs == generate_code(node.children[1], tc)
         IN Code(Append(rhs.code, <<node.value, " = ", rhs.result>>), PyNone,
                 rhs.temp_count)
    [] node.type = "binop" ->
         LET c1 == generate_code(node.children[1], tc)
             c2 == generate_code(node.children[2], c1.temp_count)
             t == new_temp(c2.temp_count)
         IN IF InOrder(<<c1, c2>>)
            THEN Code(Append(c1.code \o c2.code,
                             <<t.temp, " = ", c1.result, " ", node.value, " ", c2.result>>),
                      t.temp, t.temp_count)
            ELSE c1
    [] node.type = "num" -> Code(<<>>, Str(node.value), tc)
    [] node.type = "var" -> Code(<<>>, node.value, tc)
    [] node.type = "if" ->
         LET cond == generate_code(node.children[1], tc)
             then == generate_stmts(node.children[2].children, 1,
                                    Code(<<>>, PyNone, cond.temp_count))
             label_end == new_temp(then.temp_count)
         IN IF InOrder(<<cond, then>>)
            THEN Code(Append(cond.code, <<"ifnot ", cond.result, " goto ", label_end.temp>>)
                      \o then.code \o <<<<"label ", label_end.temp>>>>,
                      PyNone, label_end.temp_count)
            ELSE cond
    [] node.type = "if-else" ->
         LET cond == generate_code(node.children[1], tc)
             then == generate_stmts(node.children[2].children, 1,
                                    Code(<<>>, PyNone, cond.temp_count))
             else == generate_stmts(node.children[3].children, 1,
                                    Code(<<>>, PyNone, then.temp_count))
             label_else == new_temp(else.temp_count)
             label_end == new_temp(label_else.temp_count)
         IN IF InOrder(<<cond, then, else>>)
            THEN Code(Append(cond.code, <<"ifnot ", cond.result, " goto ", label_else.temp>>)
                      \o then.code
                      \o <<<<"goto ", label_end.temp>>, <<"label ", label_else.temp>>>>
                      \o else.code \o <<<<"label ", label_end.temp>>>>,
                      PyNone, label_end.temp_count)
            ELSE cond
    [] node.type = "while" ->
         LET label_start == new_temp(tc)
             label_end == new_temp(label_start.temp_count)
             cond == generate_code(node.children[1], label_end.temp_count)
             body == generate_stmts(node.children[2].children, 1,
                                    Code(<<>>, PyNone, cond.temp_count))
         IN IF InOrder(<<cond, body>>)
            THEN Code(<<<<"label ", label_start.temp>>>> \o cond.code
                      \o <<<<"ifnot ", cond.result, " goto ", label_end.temp>>>>
                      \o body.code
                      \o <<<<"goto ", label_start.temp>>, <<"label ", label_end.temp>>>>,
                      PyNone, body.temp_count)
            ELSE cond
    [] OTHER -> Code(<<>>, PyNone, tc)

\* the script's statements from lexer.input(code) on, for a text code: the
\* module's symbol_table and temp_count after them, the locals ast and tac,
\* and the exception that ended the script (generate_code(None) raises
\* AttributeError, and tac is not assigned)
main(code, g) ==
  LET toks == SelectSeq(mini_lex(code).items, IsTok)
      parsed == mini_yacc_parse(toks, 1, 0, g.symbol_table, 0)
      gen == generate_code(parsed.ast, g.temp_count)
  IN IF ~InOrder(<<toks, parsed>>) THEN g
     ELSE IF ~parsed.ok
     THEN [symbol_table |-> parsed.st, temp_count |-> g.temp_count,
           ast |-> parsed.ast, tac |-> <<>>, exception |-> "AttributeError"]
     ELSE [symbol_table |-> parsed.st, temp_count |-> gen.temp_count,
           ast |-> parsed.ast, tac |-> gen.code, exception |-> ""]

(***************************************************************************)
(* Source texts.  A text is written as a sequence of words; Chars spells a *)
(* word out as characters and Src concatenates the words.                  *)
(***************************************************************************)
Chars(w) ==
  CASE w = "int"    -> <<"i", "n", "t">>
    [] w = "void"   -> <<"v", "o", "i", "d">>
    [] w = "float"  -> <<"f", "l", "o", "a", "t">>
    [] w = "if"     -> <<"i", "f">>
    [] w = "else"   -> <<"e", "l", "s", "e">>
    [] w = "while"  -> <<"w", "h", "i", "l", "e">>
    [] w = "return" -> <<"r", "e", "t", "u", "r", "n">>
    [] w = "main"   -> <<"m", "a", "i", "n">>
    [] w = "char"   -> <<"c", "h", "a", "r">>
    [] w = "10"     -> <<"1", "0">>
    [] w = "007"    -> <<"0", "0", "7">>
    [] w = "1.50"   -> <<"1", ".", "5", "0">>
    [] w = "=="     -> <<"=", "=">>
    [] w = "<="     -> <<"<", "=">>
    [] w = "++"     -> <<"+", "+">>
    [] w = "//"     -> <<"/", "/">>
    [] w = "    "   -> <<" ", " ", " ", " ">>
    [] OTHER        -> <<w>>

Src(words) == Concat([k \in 1..Len(words) |-> Chars(words[k])], 1, Len(words))

\* the words separated by single spaces
Spaced(words) ==
  [k \in 1..(IF words = <<>> THEN 0 ELSE 2 * Len(words) - 1) |->
     IF k % 2 = 1 THEN words[(k + 1) \div 2] ELSE " "]

(***************************************************************************)
(* Programs written from syntax trees (the trees have the shape of the     *)
(* tuples the reduce actions build).                                       *)
(***************************************************************************)
Var(n) == <<"var", n>>
Num(n) == <<"int", n>>
Bin(op, l, r) == <<"binop", op, l, r>>
Assign(n, e) == <<"expr_stmt", <<"assign", Var(n), e>>>>
Empty == <<"empty_stmt">>
Return(e) == <<"return", e>>
If(c, s) == <<"if", c, s>>
IfElse(c, s, t) == <<"if_else", c, s, t>>
While(c, s) == <<"while", c, s>>
Block(stmts) == <<"compound", <<>>, stmts>>
Fun(stmts) == <<"program", <<<<"fun_decl", "void", "f", PyList(<<>>), Block(stmts)>>>>>>

\* binding strength of a binary operator in ordinary arithmetic
Prec(op) == IF op \in {"*", "/", "%"} THEN 2 ELSE IF op \in {"+", "-"} THEN 1 ELSE 0

\* the words of an expression, with the parentheses its tree needs below an
\* operator of strength ctx (right: as the right operand)
RECURSIVE ExprWords(_, _, _)
ExprWords(e, ctx, right) ==
  IF e[1] = "var" THEN <<e[2]>>
  ELSE IF e[1] = "int" THEN <<ToString(e[2])>>
  ELSE LET p == Prec(e[2])
           w == ExprWords(e[3], p, FALSE) \o <<e[2]>> \o ExprWords(e[4], p, TRUE)
       IN IF p < ctx \/ (p = ctx /\ right) THEN <<"(">> \o w \o <<")">> ELSE w

RECURSIVE StmtWords(_), StmtsWords(_, _)
StmtWords(s) ==
  CASE s[1] = "expr_stmt" -> <<s[2][2][2], "=">> \o ExprWords(s[2][3], 0, FALSE) \o <<";">>
    [] s[1] = "empty_stmt" -> <<";">>
    [] s[1] = "return" -> <<"return">> \o ExprWords(s[2], 0, FALSE) \o <<";">>
    [] s[1] = "compound" -> <<"{">> \o StmtsWords(s[3], 1) \o <<"}">>
    [] s[1] = "if" -> <<"if", "(">> \o ExprWords(s[2], 0, FALSE) \o <<")">> \o StmtWords(s[3])
    [] s[1] = "if_else" ->
         <<"if", "(">> \o ExprWords(s[2], 0, FALSE) \o <<")">> \o StmtWords(s[3])
         \o <<"else">> \o StmtWords(s[4])
    [] s[1] = "while" ->
         <<"while", "(">> \o ExprWords(s[2], 0, FALSE) \o <<")">> \o StmtWords(s[3])
StmtsWords(stmts, k) ==
  IF k > Len(stmts) THEN <<>> ELSE StmtWords(stmts[k]) \o StmtsWords(stmts, k + 1)

\* the text of  void f ( void ) { stmts }
FunSrc(stmts) ==
  Src(Spaced(<<"void", "f", "(", "void", ")", "{">> \o StmtsWords(stmts, 1) \o <<"}">>))

\* expressions over three operands: both groupings of two operators
OpPairs ==
  { <<"+", "*">>, <<"*", "+">>, <<"-", "-">>, <<"/", "/">>, <<"-", "+">>,
    <<"/", "*">>, <<"*", "-">>, <<"+", "/">> }
Exprs ==
  { Bin(o[1], Bin(o[2], Var("a"), Var("b")), Var("c")) : o \in OpPairs }
  \cup { Bin(o[1], Var("a"), Bin(o[2], Var("b"), Var("c"))) : o \in OpPairs }
  \cup { Bin("+", Num(2), Bin("*", Num(3), Num(4))),
         Bin("*", Bin("+", Var("a"), Num(0)), Bin("-", Var("c"), Var("d"))) }
ExprSrc(e) == FunSrc(<<Return(e)>>)

\* statements: conditions with and without a temporary, bodies with and
\* without nested statements
CondX == Var("x")
CondLt == Bin("<", Var("x"), Var("y"))
Dec == Assign("x", Bin("-", Var("x"), Num(1)))
Two == Assign("y", Num(2))
Bodies ==
  { Dec,
    IfElse(CondX, Dec, Empty),
    While(CondLt, Dec),
    Block(<<If(CondX, Two), Dec>>) }
Stmts ==
  { IfElse(CondLt, s, t) : s, t \in Bodies }
  \cup { While(CondLt, s) : s \in Bodies }
  \cup { If(CondX, s) : s \in Bodies }
  \cup { While(CondX, IfElse(CondLt, While(CondX, Two), If(CondLt, Dec))) }
StmtSrc(s) == FunSrc(<<s>>)

(***************************************************************************)
(* The source texts the programs are run on.                               *)
(***************************************************************************)
ExampleWords ==
  <<"int", "x", ";", "x", "=", "5", "+", "3", ";", "if", "(", "x", ")",
    "{", "x", "=", "x", "-", "1", ";", "}", "else",
    "{", "x", "=", "x", "+", "1", ";", "}">>

\* int x; x = 5 + 3; if (x) { x = x - 1; } else { x = x + 1; }
ExampleSrc == Src(Spaced(ExampleWords))

\* the statements of the example in the body of a function
WrappedSrc ==
  Src(Spaced(<<"int", "x", ";", "void", "main", "(", "void", ")", "{">>
             \o SubSeq(ExampleWords, 4, Len(ExampleWords)) \o <<"}">>))

\* the text mini.py's __main__ compiles
MainCode ==
  Src(<<"\n", "    ", "int", " ", "x", ";", "\n",
        "    ", "x", " ", "=", " ", "5", " ", "+", " ", "3", ";", "\n",
        "    ", "if", " ", "(", "x", ")", " ", "{", "\n",
        "    ", "    ", "x", " ", "=", " ", "x", " ", "-", " ", "1", ";", "\n",
        "    ", "}", " ", "else", " ", "{", "\n",
        "    ", "    ", "x", " ", "=", " ", "x", " ", "+", " ", "1", ";", "\n",
        "    ", "}", "\n", "    ">>)

Blank ==
  { <<>>,
    Src(<<" ", "\t", " ">>),
    Src(<<"//", " ", "a", "@">>),
    Src(<<" ", "//", " ", "x", "\n", "\t", "\n">>) }

Broken ==
  { Src(Spaced(<<"x", "int", "y", ";">>)),
    Src(Spaced(<<"int", "x", ";", "x", "int", "y", ";", "}", "int", "z", ";">>)),
    Src(<<"int", " ", "x", ";", "\n", "=", " ", "y", ";">>),
    Src(<<"int", " ", "x", "@", ";", "\n", "$", "int", " ", "y", ";">>),
    Src(Spaced(<<"int", "@", "x", ";">>)) }

Arrays ==
  { Src(Spaced(<<"int", "a", "[", "0", "]", ";">>)),
    Src(Spaced(<<"int", "a", "[", "2", "]", ";">>)),
    Src(Spaced(<<"float", "b", "[", "0", "]", ";", "int", "c", ";">>)) }

Programs ==
  { Src(<<"int", " ", "x", ";">>),
    Src(<<"void", " ", "f", "(", "void", ")", "{", "\n", "while", "(", "x", "<", "y", ")",
          " ", "x", "=", "x", "-", "1", ";", "}">>),
    Src(Spaced(<<"int", "g", "(", "int", "a", ",", "int", "b", "[", "]", ")", "{",
                 "b", "[", "a", "]", "=", "g", "(", "a", ",", "b", "+", "1", ")", ";",
                 "return", "a", ";", "}">>)) }

\* a name declared more than once: at top level, as locals of one function
\* and of two, at top level and as a local
Redeclared ==
  { Src(Spaced(<<"int", "x", ";", "float", "x", "[", "3", "]", ";">>)),
    Src(Spaced(<<"float", "x", "[", "3", "]", ";", "int", "x", ";">>)),
    Src(Spaced(<<"void", "f", "(", "void", ")", "{", "int", "x", ";", "}",
                 "void", "g", "(", "void", ")", "{", "float", "x", ";",
                 "char", "x", ";", "}">>)),
    Src(Spaced(<<"int", "x", ";", "int", "f", "(", "int", "a", ")", "{",
                 "float", "x", "[", "2", "]", ";", "return", "a", ";", "}">>)) }

\* the literal 0 as an assigned value, a return value, an array index, a call
\* argument, a condition and an operand
Literals ==
  { Src(Spaced(<<"void", "f", "(", "void", ")", "{", "x", "=", "0", ";", "}">>)),
    Src(Spaced(<<"int", "f", "(", "void", ")", "{", "return", "0", ";", "}">>)),
    Src(Spaced(<<"void", "f", "(", "void", ")", "{", "a", "[", "0", "]", "=", "5", ";", "}">>)),
    Src(Spaced(<<"void", "f", "(", "void", ")", "{", "g", "(", "0", ",", "7", ")", ";", "}">>)),
    Src(Spaced(<<"void", "f", "(", "void", ")", "{", "if", "(", "0", ")", "x", "=", "1", ";",
                 "while", "(", "0", ")", ";", "}">>)),
    Src(Spaced(<<"void", "f", "(", "void", ")", "{", "x", "=", "0", "+", "y", ";", "}">>)) }

\* an assignment as the value of an assignment, a condition, a return and a
\* call argument
AssignValues ==
  { Src(Spaced(<<"void", "f", "(", "void", ")", "{", "a", "=", "b", "=", "1", ";", "}">>)),
    Src(Spaced(<<"void", "f", "(", "void", ")", "{", "if", "(", "a", "=", "1", ")", ";",
                 "while", "(", "a", "=", "b", ")", ";", "}">>)),
    Src(Spaced(<<"int", "f", "(", "void", ")", "{", "return", "a", "=", "1", ";", "}">>)),
    Src(Spaced(<<"void", "f", "(", "void", ")", "{", "g", "(", "a", "=", "1", ")", ";", "}">>)),
    Src(Spaced(<<"void", "f", "(", "void", ")", "{", "a", "[", "i", "]", "=", "b", "[", "2", "]",
                 "=", "c", "+", "1", ";", "}">>)) }

\* mini.py's language: a block in braces after every condition, no empty
\* statement, no comparison
RECURSIVE MiniStmtWords(_), MiniStmtsWords(_, _)
MiniBlockWords(s) ==
  <<"{">> \o (IF s[1] = "compound" THEN MiniStmtsWords(s[3], 1) ELSE MiniStmtWords(s))
  \o <<"}">>
MiniStmtWords(s) ==
  CASE s[1] = "expr_stmt" -> <<s[2][2][2], "=">> \o ExprWords(s[2][3], 0, FALSE) \o <<";">>
    [] s[1] = "if" ->
         <<"if", "(">> \o ExprWords(s[2], 0, FALSE) \o <<")">> \o MiniBlockWords(s[3])
    [] s[1] = "if_else" ->
         <<"if", "(">> \o ExprWords(s[2], 0, FALSE) \o <<")">> \o MiniBlockWords(s[3])
         \o <<"else">> \o MiniBlockWords(s[4])
    [] s[1] = "while" ->
         <<"while", "(">> \o ExprWords(s[2], 0, FALSE) \o <<")">> \o MiniBlockWords(s[3])
MiniStmtsWords(stmts, k) ==
  IF k > Len(stmts) THEN <<>>
  ELSE MiniStmtWords(stmts[k]) \o MiniStmtsWords(stmts, k + 1)

MiniSrc(stmts) == Src(Spaced(MiniStmtsWords(stmts, 1)))
MiniExprSrc(e) == MiniSrc(<<Assign("r", e)>>)

CondSub == Bin("-", Var("x"), Var("y"))
MiniBodies ==
  { Dec,
    IfElse(CondX, Dec, Block(<<>>)),
    While(CondSub, Dec),
    Block(<<If(CondX, Two), Dec>>) }
MiniStmts ==
  { IfElse(CondSub, s, t) : s, t \in MiniBodies }
  \cup { While(CondSub, s) : s \in MiniBodies }
  \cup { If(CondX, s) : s \in MiniBodies }
  \cup { While(CondX, IfElse(CondSub, While(CondX, Two), If(CondSub, Dec))) }

MiniBroken ==
  { Src(Spaced(<<"x", "=", "a", ";", "int", "y", ";", "y", "=", "2", ";">>)),
    Src(Spaced(<<"int", "y", ";", "y", "=", "2", ";", "}", "int", "z", ";">>)),
    Src(Spaced(<<"int", "x", ";", ")", "x", "=">>)),
    Src(Spaced(<<"if", "(", "x", "==", "1", ")", "{", "}">>)) }

MiniInputs ==
  {MainCode, ExampleSrc} \cup MiniBroken
  \cup { MiniExprSrc(e) : e \in Exprs }
  \cup { MiniSrc(<<st>>) : st \in MiniStmts }

Inputs ==
  {ExampleSrc, WrappedSrc} \cup Blank \cup Broken \cup Arrays \cup Programs
  \cup Redeclared \cup Literals \cup AssignValues
  \cup { ExprSrc(e) : e \in Exprs }
  \cup { StmtSrc(st) : st \in Stmts }

(***************************************************************************)
(* The state machine.  A run is of one of the two programs: a process      *)
(* holding one MiniCCompiler instance, whose compile is called with any of *)
(* the source texts, any number of times; or the script mini.py, which     *)
(* compiles one text and ends.                                             *)
(***************************************************************************)
VARIABLES
  script,        \* the program that runs: "compiler.py" or "mini.py"
  source_code,   \* the text of the last compile call, or of the script
                 \* (PyNone before it)
  self_tokens,   \* self.tokens
  ast,           \* self.ast
  tac,           \* self.tac
  symbol_table,  \* self.symbol_table
  temp_count,    \* self.temp_count
  label_count,   \* self.label_count
  errors,        \* self.errors
  lineno,        \* self.lexer.lineno
  result,        \* the dictionary the last compile call returned
  mini           \* mini.py: symbol_table, temp_count, ast, tac, exception

vars == <<script, source_code, self_tokens, ast, tac, symbol_table, temp_count,
          label_count, errors, lineno, result, mini>>

Self ==
  [tokens |-> self_tokens, ast |-> ast, tac |-> tac,
   symbol_table |-> symbol_table, temp_count |-> temp_count,
   label_count |-> label_count, errors |-> errors, lineno |-> lineno]

\* the line counter of the lexer is never reset, so it is capped here
MaxLineno == 5

\* mini.py at import: symbol_table = {} , temp_count = 0
mini_init ==
  [symbol_table |-> EmptyDict, temp_count |-> 0, ast |-> PyNone, tac |-> <<>>,
   exception |-> ""]

Init ==
  /\ script \in {"compiler.py", "mini.py"}
  /\ source_code = PyNone
  /\ self_tokens = init.tokens
  /\ ast = init.ast
  /\ tac = init.tac
  /\ symbol_table = init.symbol_table
  /\ temp_count = init.temp_count
  /\ label_count = init.label_count
  /\ errors = init.errors
  /\ lineno = init.lineno
  /\ result = [tokens |-> <<>>, tac |-> <<>>, symbol_table |-> EmptyDict,
               errors |-> <<>>]
  /\ mini = mini_init

\* the instance and the returned dictionary after a call
Returns(src, r) ==
  /\ r.self.lineno <= MaxLineno
  /\ source_code' = src
  /\ self_tokens' = r.self.tokens
  /\ ast' = r.self.ast
  /\ tac' = r.self.tac
  /\ symbol_table' = r.self.symbol_table
  /\ temp_count' = r.self.temp_count
  /\ label_count' = r.self.label_count
  /\ errors' = r.self.errors
  /\ lineno' = r.self.lineno
  /\ result' = r.result
  /\ UNCHANGED <<script, mini>>

Compile(src) ==
  /\ script = "compiler.py"
  /\ Returns(src, compile(src, Self))

\* python mini.py, for a text code
Main(code) ==
  /\ script = "mini.py"
  /\ source_code = PyNone
  /\ source_code' = code
  /\ mini' = main(code, mini)
  /\ UNCHANGED <<script, self_tokens, ast, tac, symbol_table, temp_count,
                 label_count, errors, lineno, result>>

Next ==
  \/ \E src \in Inputs : Compile(src)
  \/ \E code \in MiniInputs : Main(code)

Spec == Init /\ [][Next]_vars

(***************************************************************************)
(* Properties.  Texts are compared as the programs print them: Lines gives *)
(* the strings of a list of instructions or diagnostics.                   *)
(***************************************************************************)
Lines(t) == [k \in 1..Len(t) |-> F(t[k])]

\* a call of compile has returned / the script has run
OnCompiler == script = "compiler.py" /\ source_code # PyNone
OnMini == script = "mini.py" /\ source_code # PyNone

\* the line of position p of a text, and the number of its newlines
LineOf(src, p) == 1 + Cardinality({q \in 1..(p - 1) : src[q] = "\n"})
Newlines(src) == Cardinality({q \in 1..Len(src) : src[q] = "\n"})

\* position p lies in a // comment
InComment(src, p) ==
  \E q \in 1..p : /\ q < Len(src)
                  /\ src[q] = "/" /\ src[q + 1] = "/"
                  /\ \A r \in q..p : src[r] # "\n"

\* the positions of the characters that belong to no token
Unrecognized(src) ==
  {p \in 1..Len(src) : src[p] \in {"@", "$", "#", "?", "~", "^", ":"} /\ ~InComment(src, p)}

IsBlank(src) == \A p \in 1..Len(src) : src[p] \in {" ", "\t", "\n"} \/ InComment(src, p)

IsIllegalCharacter(d) == d[1] = "Illegal character '"
IsSyntaxError(d) == d[1] \in {"Syntax error at token ", "Syntax error at EOF"}

\* kind and text of the tokens of a text, as a lexer at line 1 gives them
OwnItems(src) == lex(src, 1).items
OwnTokens(src) == SelectSeq(OwnItems(src), IsTok)
KindAndText(tokens) == [k \in 1..Len(tokens) |-> <<tokens[k].type, tokens[k].value>>]

ExampleTac ==
  <<"declare x as int", "t0 = 5 + 3", "x = t0", "ifnot x goto L0", "t1 = x - 1",
    "x = t1", "goto L1", "L0:", "t2 = x + 1", "x = t2", "L1:">>

\* C1 as claimed: the example text, compiled by MiniCCompiler.compile or run
\* through mini.py, gives exactly the eleven instructions of ExampleTac, and
\* compile gives no diagnostic
C1_ExampleAsClaimed ==
  source_code = ExampleSrc =>
    IF script = "compiler.py"
    THEN Lines(result.tac) = ExampleTac /\ result.errors = <<>>
    ELSE Lines(mini.tac) = ExampleTac

\* C1: MiniCCompiler.compile takes the example text for a syntax error at its
\* first statement (a program is a list of declarations) and returns no
\* instruction; with the statements in a function body it returns the claimed
\* instructions after "declare x as int" and "function main:", and no
\* diagnostic; mini.py lowers the text, one-line or as its __main__ has it,
\* to the same instructions without the declare, with labels t3 and t4 taken
\* from the counter of the temporaries and defined as "label t3", "label t4"
C1_Example ==
  /\ (script = "compiler.py" /\ source_code = ExampleSrc) =>
       /\ result.tac = <<>>
       /\ Lines(result.errors)
            = <<"Syntax error at token ID ('x') at line " \o ToString(lineno)>>
  /\ (script = "compiler.py" /\ source_code = WrappedSrc) =>
       /\ Lines(result.tac)
            = <<"declare x as int", "function main:", "t0 = 5 + 3", "x = t0",
                "ifnot x goto L0", "t1 = x - 1", "x = t1", "goto L1", "L0:",
                "t2 = x + 1", "x = t2", "L1:">>
       /\ result.errors = <<>>
  /\ (script = "mini.py" /\ source_code \in {ExampleSrc, MainCode}) =>
       /\ Lines(mini.tac)
            = <<"t0 = 5 + 3", "x = t0", "ifnot x goto t3", "t1 = x - 1", "x = t1",
                "goto t4", "label t3", "t2 = x + 1", "x = t2", "label t4">>
       /\ mini.exception = ""

C1_ExampleCompiled ==
  /\ script = "compiler.py" /\ source_code = ExampleSrc
  /\ Len(result.tokens) = Len(ExampleWords)
  /\ Len(result.errors) = 1

\* the instructions that define a temporary, and those that define a label
IsTempDef(ins) == Len(ins) \in {5, 7} /\ ins[2] \in {" = ", " = call "}
IsLabelDef(ins) == Len(ins) = 2 /\ ins[2] = ":"

\* C2: in the instructions of every call the k-th instruction that defines a
\* temporary defines t(k-1), the labels defined are L0 .. L(n-1), each once,
\* and the two counters of the instance count exactly these, whatever the
\* instance compiled before
C2_FreshCounters ==
  script = "compiler.py" =>
    LET d == SelectSeq(tac, IsTempDef)
        l == SelectSeq(tac, IsLabelDef)
    IN /\ \A k \in 1..Len(d) : d[k][1] = "t" \o ToString(k - 1)
       /\ {l[k][1] : k \in 1..Len(l)} = {"L" \o ToString(k - 1) : k \in 1..Len(l)}
       /\ \A j, k \in 1..Len(l) : l[j][1] = l[k][1] => j = k
       /\ temp_count = Len(d)
       /\ label_count = Len(l)
       /\ result.tac \in {tac, <<>>}

\* a call that lowered nested statements, on an instance whose lexer has
\* seen more lines than both passes over this text account for
C2_LaterCall ==
  /\ script = "compiler.py"
  /\ lineno > 1 + 2 * Newlines(source_code)
  /\ temp_count >= 2
  /\ label_count >= 5
  /\ result.tac = tac

\* C3: every token carries the line it has in the text of this call, every
\* illegal-character diagnostic the line of such a character of this text,
\* and every syntax-error diagnostic the line of the token it names
C3_LinesOfCurrentSource ==
  OnCompiler =>
    LET own == OwnItems(source_code)
        toks == OwnTokens(source_code)
    IN /\ Len(result.tokens) = Len(toks)
       /\ \A k \in 1..Len(toks) : result.tokens[k].line = toks[k].lineno
       /\ \A k \in 1..Len(result.errors) :
            LET d == result.errors[k] IN
            /\ IsIllegalCharacter(d) =>
                 \E j \in 1..Len(own) : IsErr(own[j]) /\ own[j].msg = d
            /\ d[1] = "Syntax error at token " =>
                 \E j \in 1..Len(toks) : /\ toks[j].type = d[2]
                                         /\ Str(toks[j].value) = d[4]
                                         /\ ToString(toks[j].lineno) = d[6]

\* C4: when a syntax error is among the diagnostics, the returned tac and
\* symbol_table are empty and the returned tokens are all tokens of the text
C4_NoLoweringAfterSyntaxError ==
  (OnCompiler /\ \E k \in 1..Len(result.errors) : IsSyntaxError(result.errors[k])) =>
    /\ result.tac = <<>>
    /\ DOMAIN result.symbol_table = {}
    /\ [k \in 1..Len(result.tokens) |-> <<result.tokens[k].type, result.tokens[k].value>>]
         = [k \in 1..Len(OwnTokens(source_code)) |->
              <<OwnTokens(source_code)[k].type, Str(OwnTokens(source_code)[k].value)>>]

\* C5: the diagnostics hold one illegal-character diagnostic for each
\* unrecognized character of the text, and the tokens are those of the text
\* around these characters, in order
C5_OneDiagnosticPerCharacter ==
  OnCompiler =>
    /\ Len(SelectSeq(result.errors, IsIllegalCharacter))
         = Cardinality(Unrecognized(source_code))
    /\ Len(result.tokens) = Len(OwnTokens(source_code))

\* C6: a text of blanks, newlines and comments gives no token and no diagnostic
C6_BlankSource ==
  (OnCompiler /\ IsBlank(source_code)) =>
    /\ result.tokens = <<>>
    /\ result.errors = <<>>

\* the texts that declare an array of size 0
ZeroSized == {src \in Arrays : \E p \in 1..Len(src) : src[p] = "0"}

\* C7: an array declared with size 0 gives a diagnostic; no array of a size
\* below 1 is entered in the symbol table or declared by an instruction
C7_ZeroSizedArrayRejected ==
  OnCompiler =>
    /\ source_code \in ZeroSized => result.errors # <<>>
    /\ \A n \in DOMAIN result.symbol_table :
         result.symbol_table[n].kind = "array" => result.symbol_table[n].size[2] >= 1
    /\ \A k \in 1..Len(result.tac) :
         (Len(result.tac[k]) = 6 /\ result.tac[k][1] = "declare ")
           => result.tac[k][4] # "0"

(***************************************************************************)
(* The place of a statement's instructions in tac, from counts over the    *)
(* tree: the instructions, temporaries and labels a node asks for itself,  *)
(* and its sub-nodes in the order they are lowered.                        *)
(***************************************************************************)
Children(node) ==
  CASE node[1] = "program" -> node[2]
    [] node[1] = "fun_decl" -> <<node[5]>>
    [] node[1] = "compound" -> node[2] \o node[3]
    [] node[1] = "expr_stmt" -> <<node[2]>>
    [] node[1] = "assign" -> <<node[3], node[2]>>
    [] node[1] = "binop" -> <<node[3], node[4]>>
    [] node[1] = "array_ref" -> <<node[3]>>
    [] node[1] = "call" -> node[3]
    [] node[1] \in {"if", "while"} -> <<node[2], node[3]>>
    [] node[1] = "if_else" -> <<node[2], node[3], node[4]>>
    [] node[1] = "return" -> IF Len(node) > 1 THEN <<node[2]>> ELSE <<>>
    [] OTHER -> <<>>

Own(what, node) ==
  CASE what = "instructions" ->
         (CASE node[1] \in {"var_decl", "array_decl", "fun_decl", "binop", "assign",
                            "return"} -> 1
            [] node[1] = "if" -> 2
            [] node[1] \in {"if_else", "while"} -> 4
            [] node[1] = "call" -> Len(node[3]) + 1
            [] OTHER -> 0)
    [] what = "temporaries" -> IF node[1] \in {"binop", "call"} THEN 1 ELSE 0
    [] what = "labels" ->
         (CASE node[1] = "if" -> 1
            [] node[1] \in {"if_else", "while"} -> 2
            [] OTHER -> 0)

RECURSIVE Count(_, _), CountEach(_, _, _)
Count(what, node) == Own(what, node) + CountEach(what, Children(node), 1)
CountEach(what, nodes, k) ==
  IF k > Len(nodes) THEN 0 ELSE Count(what, nodes[k]) + CountEach(what, nodes, k + 1)

NI(node) == Count("instructions", node)
NT(node) == Count("temporaries", node)
NL(node) == Count("labels", node)

\* a generator that has emitted nothing, with tc temporaries and lc labels used
Fresh(tc, lc) == [tac |-> <<>>, temp_count |-> tc, label_count |-> lc]

\* the reference of an expression lowered with tc temporaries used before it:
\* its last temporary, or what the generator makes of a leaf
RefOf(e, tc) ==
  IF e[1] \in {"binop", "call"} THEN "t" \o ToString(tc + NT(e) - 1)
  ELSE Fmt(generate_tac(e, Fresh(tc, 0)).ret)

\* one of the names occurs in an instruction of tac[lo..hi]
Mentions(t, lo, hi, names) ==
  \E j \in lo..hi : \E q \in 1..Len(t[j]) : t[j][q] \in names

\* tac from instruction pos + 1 on is the lowering of node, begun with tc
\* temporaries and lc labels used, as far as the statements of the given kind
\* go: each has the layout of its kind, its parts lie where the counts put
\* them, and every other node gives the instructions the generator gives it
RECURSIVE Layout(_, _, _, _, _), LayoutEach(_, _, _, _, _, _)
Layout(kind, node, pos, tc, lc) ==
  CASE node[1] \in {"program", "compound", "fun_decl"} ->
         LayoutEach(kind, Children(node), 1, pos + Own("instructions", node), tc, lc)
    [] node[1] = "if" ->
         /\ Layout(kind, node[2], pos, tc, lc)
         /\ Layout(kind, node[3], pos + NI(node[2]) + 1, tc + NT(node[2]),
                   lc + NL(node[2]) + 1)
    [] node[1] = "if_else" ->
         LET p1 == pos + NI(node[2])
             p2 == p1 + 1 + NI(node[3])
             p3 == p2 + 2 + NI(node[4])
             l1 == lc + NL(node[2])
             Lfalse == "L" \o ToString(l1)
             Lend == "L" \o ToString(l1 + 1)
         IN /\ kind = "if_else" =>
                 /\ p3 + 1 <= Len(tac)
                 /\ F(tac[p1 + 1]) = "ifnot " \o RefOf(node[2], tc) \o " goto " \o Lfalse
                 /\ F(tac[p2 + 1]) = "goto " \o Lend
                 /\ F(tac[p2 + 2]) = Lfalse \o ":"
                 /\ F(tac[p3 + 1]) = Lend \o ":"
                 /\ ~Mentions(tac, pos + 1, p1, {Lfalse, Lend})
                 /\ ~Mentions(tac, p1 + 2, p2, {Lfalse, Lend})
                 /\ ~Mentions(tac, p2 + 3, p3, {Lfalse, Lend})
            /\ Layout(kind, node[2], pos, tc, lc)
            /\ Layout(kind, node[3], p1 + 1, tc + NT(node[2]), l1 + 2)
            /\ Layout(kind, node[4], p2 + 2, tc + NT(node[2]) + NT(node[3]),
                      l1 + 2 + NL(node[3]))
    [] node[1] = "while" ->
         LET p1 == pos + 1 + NI(node[2])
             p2 == p1 + 1 + NI(node[3])
             Lstart == "L" \o ToString(lc)
             Lend == "L" \o ToString(lc + 1)
         IN /\ kind = "while" =>
                 /\ p2 + 2 <= Len(tac)
                 /\ F(tac[pos + 1]) = Lstart \o ":"
                 /\ F(tac[p1 + 1]) = "ifnot " \o RefOf(node[2], tc) \o " goto " \o Lend
                 /\ F(tac[p2 + 1]) = "goto " \o Lstart
                 /\ F(tac[p2 + 2]) = Lend \o ":"
                 /\ Lstart # Lend
                 /\ ~Mentions(tac, pos + 2, p1, {Lstart, Lend})
                 /\ ~Mentions(tac, p1 + 2, p2, {Lstart, Lend})
            /\ Layout(kind, node[2], pos + 1, tc, lc + 2)
            /\ Layout(kind, node[3], p1 + 1, tc + NT(node[2]), lc + 2 + NL(node[2]))
    [] OTHER ->
         /\ pos + NI(node) <= Len(tac)
         /\ SubSeq(tac, pos + 1, pos + NI(node)) = generate_tac(node, Fresh(tc, lc)).tac
LayoutEach(kind, nodes, k, pos, tc, lc) ==
  \/ k > Len(nodes)
  \/ /\ k <= Len(nodes)
     /\ Layout(kind, nodes[k], pos, tc, lc)
     /\ LayoutEach(kind, nodes, k + 1, pos + NI(nodes[k]), tc + NT(nodes[k]),
                   lc + NL(nodes[k]))

\* the same for a tree of mini.py, where labels are names of the counter of
\* the temporaries
mini_Children(node) ==
  IF node.type = "program" THEN node.children[1] \o node.children[2]
  ELSE node.children

mini_Own(what, node) ==
  CASE what = "instructions" ->
         (CASE node.type \in {"assign", "binop"} -> 1
            [] node.type = "if" -> 2
            [] node.type \in {"if-else", "while"} -> 4
            [] OTHER -> 0)
    [] what = "names" ->
         (CASE node.type \in {"binop", "if"} -> 1
            [] node.type \in {"if-else", "while"} -> 2
            [] OTHER -> 0)

RECURSIVE mini_Count(_, _), mini_CountEach(_, _, _)
mini_Count(what, node) ==
  mini_Own(what, node) + mini_CountEach(what, mini_Children(node), 1)
mini_CountEach(what, nodes, k) ==
  IF k > Len(nodes) THEN 0
  ELSE mini_Count(what, nodes[k]) + mini_CountEach(what, nodes, k + 1)

mini_NI(node) == mini_Count("instructions", node)
mini_NT(node) == mini_Count("names", node)

mini_RefOf(e, tc) ==
  IF e.type = "binop" THEN "t" \o ToString(tc + mini_NT(e) - 1)
  ELSE generate_code(e, tc).result

RECURSIVE mini_Layout(_, _, _, _), mini_LayoutEach(_, _, _, _, _)
mini_Layout(kind, node, pos, tc) ==
  CASE node.type \in {"program", "block"} ->
         mini_LayoutEach(kind, mini_Children(node), 1, pos, tc)
    [] node.type = "if" ->
         /\ mini_Layout(kind, node.children[1], pos, tc)
         /\ mini_Layout(kind, node.children[2], pos + mini_NI(node.children[1]) + 1,
                        tc + mini_NT(node.children[1]))
    [] node.type = "if-else" ->
         LET cond == node.children[1]
             then == node.children[2]
             else == node.children[3]
             p1 == pos + mini_NI(cond)
             p2 == p1 + 1 + mini_NI(then)
             p3 == p2 + 2 + mini_NI(else)
             t1 == tc + mini_NT(cond)
             t2 == t1 + mini_NT(then)
             t3 == t2 + mini_NT(else)
             Lfalse == "t" \o ToString(t3)
             Lend == "t" \o ToString(t3 + 1)
         IN /\ kind = "if-else" =>
                 /\ p3 + 1 <= Len(mini.tac)
                 /\ F(mini.tac[p1 + 1])
                      = "ifnot " \o mini_RefOf(cond, tc) \o " goto " \o Lfalse
                 /\ F(mini.tac[p2 + 1]) = "goto " \o Lend
                 /\ F(mini.tac[p2 + 2]) = "label " \o Lfalse
                 /\ F(mini.tac[p3 + 1]) = "label " \o Lend
                 /\ ~Mentions(mini.tac, pos + 1, p1, {Lfalse, Lend})
                 /\ ~Mentions(mini.tac, p1 + 2, p2, {Lfalse, Lend})
                 /\ ~Mentions(mini.tac, p2 + 3, p3, {Lfalse, Lend})
            /\ mini_Layout(kind, cond, pos, tc)
            /\ mini_Layout(kind, then, p1 + 1, t1)
            /\ mini_Layout(kind, else, p2 + 2, t2)
    [] node.type = "while" ->
         LET cond == node.children[1]
             body == node.children[2]
             p1 == pos + 1 + mini_NI(cond)
             p2 == p1 + 1 + mini_NI(body)
             Lstart == "t" \o ToString(tc)
             Lend == "t" \o ToString(tc + 1)
         IN /\ kind = "while" =>
                 /\ p2 + 2 <= Len(mini.tac)
                 /\ F(mini.tac[pos + 1]) = "label " \o Lstart
                 /\ F(mini.tac[p1 + 1])
                      = "ifnot " \o mini_RefOf(cond, tc + 2) \o " goto " \o Lend
                 /\ F(mini.tac[p2 + 1]) = "goto " \o Lstart
                 /\ F(mini.tac[p2 + 2]) = "label " \o Lend
                 /\ Lstart # Lend
                 /\ ~Mentions(mini.tac, pos + 2, p1, {Lstart, Lend})
                 /\ ~Mentions(mini.tac, p1 + 2, p2, {Lstart, Lend})
            /\ mini_Layout(kind, cond, pos + 1, tc + 2)
            /\ mini_Layout(kind, body, p1 + 1, tc + 2 + mini_NT(cond))
    [] OTHER ->
         /\ pos + mini_NI(node) <= Len(mini.tac)
         /\ SubSeq(mini.tac, pos + 1, pos + mini_NI(node)) = generate_code(node, tc).code
mini_LayoutEach(kind, nodes, k, pos, tc) ==
  \/ k > Len(nodes)
  \/ /\ k <= Len(nodes)
     /\ mini_Layout(kind, nodes[k], pos, tc)
     /\ mini_LayoutEach(kind, nodes, k + 1, pos + mini_NI(nodes[k]),
                        tc + mini_NT(nodes[k]))

\* compile lowered a tree / the script lowered one
Lowered == script = "compiler.py" /\ ast[1] = "program"
mini_Lowered == OnMini /\ mini.exception = ""

\* C8: every if_else of the tree, however nested, lies in tac as the
\* condition's instructions, "ifnot cond goto Lfalse", the then branch,
\* "goto Lend", "Lfalse:", the else branch, "Lend:", with two labels of its own
\* that no instruction of its branches names, and the labels allocated are
\* one for each if and two for each if_else and while; mini.py gives the
\* same layout, its labels named by the counter of the temporaries and
\* defined as "label Lfalse", "label Lend"
C8_IfElseLayout ==
  /\ Lowered =>
       /\ Layout("if_else", ast, 0, 0, 0)
       /\ Len(tac) = NI(ast)
       /\ label_count = NL(ast)
  /\ mini_Lowered =>
       /\ mini_Layout("if-else", mini.ast, 0, 0)
       /\ Len(mini.tac) = mini_NI(mini.ast)

C8_NestedIfElse ==
  /\ script = "compiler.py"
  /\ source_code = StmtSrc(IfElse(CondLt, IfElse(CondX, Dec, Empty), While(CondLt, Dec)))
  /\ label_count = 6
  /\ Len(tac) = 19

\* C9: every while of the tree, however nested, lies in tac as "Lstart:",
\* the condition's instructions, "ifnot cond goto Lend", the body,
\* "goto Lstart", "Lend:", so that "goto Lstart" comes right before "Lend:",
\* with two distinct labels that no instruction of the condition or of the
\* body names; mini.py gives the same layout with "label Lstart", "label Lend"
C9_WhileLayout ==
  /\ Lowered =>
       /\ Layout("while", ast, 0, 0, 0)
       /\ temp_count = NT(ast)
  /\ mini_Lowered =>
       /\ mini_Layout("while", mini.ast, 0, 0)
       /\ mini.temp_count = mini_NT(mini.ast)

C9_NestedWhile ==
  /\ script = "compiler.py"
  /\ source_code
       = StmtSrc(While(CondX, IfElse(CondLt, While(CondX, Two), If(CondLt, Dec))))
  /\ label_count = 7
  /\ Len(tac) = 20

\* the tree of mini.py for an expression tree
RECURSIVE mini_Node(_)
mini_Node(e) ==
  IF e[1] = "binop" THEN Node("binop", <<mini_Node(e[3]), mini_Node(e[4])>>, e[2])
  ELSE IF e[1] = "var" THEN Node("var", <<>>, e[2])
  ELSE Node("num", <<>>, e)

\* the operand an instruction has for e, evaluated with tc temporaries used:
\* the temporary of its last operation, or the reference of the leaf
Operand(prog, e, tc) ==
  IF e[1] = "binop" THEN "t" \o ToString(tc + NT(e) - 1)
  ELSE IF prog = "compiler.py" THEN RefOf(e, tc)
  ELSE generate_code(mini_Node(e), tc).result

\* the instructions of e in ordinary arithmetic: the left operand's, then the
\* right operand's, then the operation on the two
RECURSIVE PostOrder(_, _, _)
PostOrder(prog, e, tc) ==
  IF e[1] # "binop" THEN <<>>
  ELSE PostOrder(prog, e[3], tc) \o PostOrder(prog, e[4], tc + NT(e[3]))
       \o <<Operand(prog, e, tc) \o " = " \o Operand(prog, e[3], tc) \o " " \o e[2]
            \o " " \o Operand(prog, e[4], tc + NT(e[3]))>>

\* the expression is written without parentheses
Plain(e) == \A k \in 1..Len(ExprWords(e, 0, FALSE)) : ExprWords(e, 0, FALSE)[k] # "("

\* C10: for each expression tree of Exprs, written with only the parentheses
\* the tree needs (* and / bind tighter than + and -, operators of one
\* strength group to the left), compile parses the text to that tree and
\* lowers it operand by operand from left to right, each operation on the
\* references of its two operands; mini.py, whose expressions have no
\* parentheses, does so for the texts without parentheses
C10_Precedence ==
  \A e \in Exprs :
    /\ (script = "compiler.py" /\ source_code = ExprSrc(e)) =>
         /\ ast = Fun(<<Return(e)>>)
         /\ Lines(tac) = <<"function f:">> \o PostOrder("compiler.py", e, 0)
                         \o <<"return " \o Operand("compiler.py", e, 0)>>
         /\ result.tac = tac
         /\ result.errors = <<>>
    /\ (script = "mini.py" /\ source_code = MiniExprSrc(e) /\ Plain(e)) =>
         /\ mini.exception = ""
         /\ mini.ast = Node("program",
                            <<<<>>, <<Node("assign", <<mini_Node(e)>>, "r")>>>>, PyNone)
         /\ Lines(mini.tac) = PostOrder("mini.py", e, 0)
                              \o <<"r = " \o Operand("mini.py", e, 0)>>

C10_MultiplicationFirst ==
  /\ script = "compiler.py"
  /\ source_code = ExprSrc(Bin("+", Num(2), Bin("*", Num(3), Num(4))))
  /\ Lines(tac) = <<"function f:", "t0 = 3 * 4", "t1 = 2 + t0", "return t1">>

(***************************************************************************)
(* The declarations of a text, read off its tokens: a type specifier and a *)
(* name followed by ";" or "[ NUMBER" declare a variable or an array, by   *)
(* "(" a function, by "," , ")" or "[ ]" a parameter.                      *)
(***************************************************************************)
Named(toks, k) ==
  /\ k + 2 <= Len(toks)
  /\ toks[k].type \in {"INT", "FLOAT", "CHAR", "VOID"}
  /\ toks[k + 1].type = "ID"

IsVarDecl(toks, k) ==
  /\ Named(toks, k)
  /\ \/ toks[k + 2].type = "SEMI"
     \/ /\ toks[k + 2].type = "LBRACKET"
        /\ k + 3 <= Len(toks)
        /\ toks[k + 3].type = "NUMBER"

IsFunDecl(toks, k) == Named(toks, k) /\ toks[k + 2].type = "LPAREN"

IsParam(toks, k) ==
  /\ Named(toks, k)
  /\ \/ toks[k + 2].type \in {"COMMA", "RPAREN"}
     \/ /\ toks[k + 2].type = "LBRACKET"
        /\ k + 3 <= Len(toks)
        /\ toks[k + 3].type = "RBRACKET"

NameAt(toks, k) == toks[k + 1].value[2]

VarDecls(toks, n) == {k \in 1..Len(toks) : IsVarDecl(toks, k) /\ NameAt(toks, k) = n}
VarNames(toks) == {NameAt(toks, k) : k \in {j \in 1..Len(toks) : IsVarDecl(toks, j)}}
FunNames(toks) == {NameAt(toks, k) : k \in {j \in 1..Len(toks) : IsFunDecl(toks, j)}}
ParamNames(toks) == {NameAt(toks, k) : k \in {j \in 1..Len(toks) : IsParam(toks, j)}}

Last(S) == CHOOSE k \in S : \A j \in S : j <= k

\* type, kind and size of the variable or array declaration at token k
Declared(toks, k) ==
  IF toks[k + 2].type = "SEMI"
  THEN [type |-> toks[k].value[2], kind |-> "variable"]
  ELSE [type |-> toks[k].value[2], kind |-> "array", size |-> toks[k + 3].value]

\* compile returned a tree and no diagnostic
Succeeded == OnCompiler /\ ast # PyNone /\ result.errors = <<>>

\* C11: after a compile without diagnostics, every name declared by variable
\* or array declarations (and not also as a function) has in the returned
\* symbol table the entry of the last of these declarations in the text:
\* its type and kind, and a size exactly when that one declares an array;
\* the texts that declare a name more than once compile without diagnostics
C11_RedeclarationOverwrites ==
  /\ Succeeded =>
       LET toks == OwnTokens(source_code)
       IN \A n \in VarNames(toks) \ FunNames(toks) :
            /\ n \in DOMAIN result.symbol_table
            /\ result.symbol_table[n] = Declared(toks, Last(VarDecls(toks, n)))
  /\ (OnCompiler /\ source_code \in Redeclared) =>
       /\ result.errors = <<>>
       /\ ast[1] = "program"
       /\ \E n \in VarNames(OwnTokens(source_code)) :
            Cardinality(VarDecls(OwnTokens(source_code), n)) > 1

\* x declared three times as a local, in two functions
C11_LocalsRedeclared ==
  /\ script = "compiler.py"
  /\ Cardinality(VarDecls(OwnTokens(source_code), "x")) = 3
  /\ DOMAIN result.symbol_table = {"f", "g", "x"}
  /\ result.symbol_table["x"] = [type |-> "char", kind |-> "variable"]
  /\ result.errors = <<>>

\* C12: after a compile without diagnostics the keys of the returned symbol
\* table are the names declared in the text as variables, arrays, functions
\* and parameters
C12_KeySet ==
  Succeeded =>
    LET toks == OwnTokens(source_code)
    IN DOMAIN result.symbol_table
         = VarNames(toks) \cup FunNames(toks) \cup ParamNames(toks)

(***************************************************************************)
(* The operands of the instructions.  ValueRef is the reference an         *)
(* instruction has for an operand e lowered with tc temporaries used       *)
(* before it; what stands for a number literal and for an assignment       *)
(* depends on the reading: under "literals" a literal stands as its        *)
(* decimal text, under "assignments" an assignment stands as the reference *)
(* of its target, and otherwise as the generator returns them.             *)
(***************************************************************************)
RECURSIVE ValueRef(_, _, _)
ValueRef(reading, e, tc) ==
  CASE e[1] = "int" ->
         IF reading = "literals" THEN ToString(e[2]) ELSE RefOf(e, tc)
    [] e[1] = "assign" ->
         IF reading = "assignments" THEN ValueRef(reading, e[2], tc + NT(e[3]))
         ELSE RefOf(e, tc)
    [] e[1] = "array_ref" -> e[2] \o "[" \o ValueRef(reading, e[3], tc) \o "]"
    [] OTHER -> RefOf(e, tc)

\* the temporaries of nodes[1 .. j - 1]
TempsBefore(nodes, j) == CountEach("temporaries", SubSeq(nodes, 1, j - 1), 1)

\* tac from instruction pos + 1 on is the lowering of node, begun with tc
\* temporaries used, as far as operands go: every instruction that takes
\* operands lies where the counts put it and names each operand by ValueRef
RECURSIVE Uses(_, _, _, _), UsesEach(_, _, _, _, _)
Uses(reading, node, pos, tc) ==
  LET at == pos + NI(node)
      parts == UsesEach(reading, Children(node), 1, pos, tc)
  IN
  CASE node[1] \in {"program", "compound", "fun_decl", "expr_stmt", "array_ref"} ->
         UsesEach(reading, Children(node), 1, pos + Own("instructions", node), tc)
    [] node[1] = "binop" ->
         /\ parts
         /\ at <= Len(tac)
         /\ F(tac[at]) = ValueRef(reading, node, tc) \o " = "
                         \o ValueRef(reading, node[3], tc) \o " " \o node[2] \o " "
                         \o ValueRef(reading, node[4], tc + NT(node[3]))
    [] node[1] = "assign" ->
         /\ parts
         /\ at <= Len(tac)
         /\ F(tac[at]) = ValueRef(reading, node[2], tc + NT(node[3])) \o " = "
                         \o ValueRef(reading, node[3], tc)
    [] node[1] = "return" ->
         /\ parts
         /\ at <= Len(tac)
         /\ F(tac[at]) = IF Len(node) > 1
                         THEN "return " \o ValueRef(reading, node[2], tc)
                         ELSE "return"
    [] node[1] = "call" ->
         /\ parts
         /\ at <= Len(tac)
         /\ \A j \in 1..Len(node[3]) :
              F(tac[at - 1 - Len(node[3]) + j])
                = "param " \o ValueRef(reading, node[3][j], tc + TempsBefore(node[3], j))
         /\ F(tac[at]) = ValueRef(reading, node, tc) \o " = call " \o node[2] \o " "
                         \o ToString(Len(node[3]))
    [] node[1] = "if" ->
         LET p1 == pos + NI(node[2])
         IN /\ Uses(reading, node[2], pos, tc)
            /\ p1 + 1 <= Len(tac)
            /\ Len(tac[p1 + 1]) = 4
            /\ tac[p1 + 1][1] = "ifnot "
            /\ tac[p1 + 1][2] = ValueRef(reading, node[2], tc)
            /\ Uses(reading, node[3], p1 + 1, tc + NT(node[2]))
    [] node[1] = "if_else" ->
         LET p1 == pos + NI(node[2])
             p2 == p1 + 1 + NI(node[3])
         IN /\ Uses(reading, node[2], pos, tc)
            /\ p1 + 1 <= Len(tac)
            /\ Len(tac[p1 + 1]) = 4
            /\ tac[p1 + 1][1] = "ifnot "
            /\ tac[p1 + 1][2] = ValueRef(reading, node[2], tc)
            /\ Uses(reading, node[3], p1 + 1, tc + NT(node[2]))
            /\ Uses(reading, node[4], p2 + 2, tc + NT(node[2]) + NT(node[3]))
    [] node[1] = "while" ->
         LET p1 == pos + 1 + NI(node[2])
         IN /\ Uses(reading, node[2], pos + 1, tc)
            /\ p1 + 1 <= Len(tac)
            /\ Len(tac[p1 + 1]) = 4
            /\ tac[p1 + 1][1] = "ifnot "
            /\ tac[p1 + 1][2] = ValueRef(reading, node[2], tc)
            /\ Uses(reading, node[3], p1 + 1, tc + NT(node[2]))
    [] OTHER -> TRUE
UsesEach(reading, nodes, k, pos, tc) ==
  \/ k > Len(nodes)
  \/ /\ k <= Len(nodes)
     /\ Uses(reading, nodes[k], pos, tc)
     /\ UsesEach(reading, nodes, k + 1, pos + NI(nodes[k]), tc + NT(nodes[k]))

\* C13: after a compile without diagnostics every instruction that takes
\* operands (an operation, an assignment, its indexed target, a return, a
\* param, an ifnot) names each number literal among them by its decimal
\* text, the literal 0 by "0"
C13_LiteralText ==
  Succeeded => Uses("literals", ast, 0, 0)

\* C14: after a compile without diagnostics every instruction that takes an
\* assignment as an operand (an assignment, a return, a param, an ifnot)
\* comes after the instruction of that assignment and names the operand by
\* the reference of the assignment's target
C14_AssignmentValue ==
  Succeeded => Uses("assignments", ast, 0, 0)

====
